---- MODULE Spec2Model ----
(***************************************************************************)
(* Recommendation engine of the AI-Upsell app (GroqAIEngine): cache,       *)
(* lexical type matcher, response parser, ranking and padding, fallback    *)
(* ranking, history merge and engagement boost.                            *)
(*                                                                         *)
(* Confidences are integers in units of 1/10000 (0.65 is 6500), which is   *)
(* the precision toFixed(4) keeps.  Strings that the code takes apart      *)
(* (titles) are sequences of one-character strings.                        *)
(***************************************************************************)
EXTENDS Integers, Sequences, FiniteSets, TLC

\* ------------------------------------------------------------------------
\* Generic sequence helpers (Array.prototype.map / slice / sort / Set)
\* ------------------------------------------------------------------------
Range(s) == {s[i] : i \in 1..Len(s)}

Min(a, b) == IF a <= b THEN a ELSE b

Max(a, b) == IF a >= b THEN a ELSE b

\* arr.slice(0, n) for n >= 0
Take(s, n) == SubSeq(s, 1, Min(n, Len(s)))

\* [...new Set(arr)]: first occurrences, in order
RECURSIVE Dedup(_)
Dedup(s) ==
  IF s = <<>> THEN <<>>
  ELSE LET init == Dedup(SubSeq(s, 1, Len(s) - 1))
           x    == s[Len(s)]
       IN IF x \in Range(init) THEN init ELSE Append(init, x)

\* Insert the pair x = <<key, item>> into a sequence of pairs sorted
\* descending by key, after every pair whose key is >= the key of x: with
\* SortPairsDesc this is a stable sort, as Array.prototype.sort is.
RECURSIVE InsertDesc(_, _)
InsertDesc(x, s) ==
  IF s = <<>> THEN <<x>>
  ELSE IF Head(s)[1] >= x[1]
       THEN <<Head(s)>> \o InsertDesc(x, Tail(s))
       ELSE <<x>> \o s

RECURSIVE SortPairsDesc(_)
SortPairsDesc(s) ==
  IF s = <<>> THEN <<>>
  ELSE InsertDesc(s[Len(s)], SortPairsDesc(SubSeq(s, 1, Len(s) - 1)))

\* arr.sort((a, b) => Key(b) - Key(a))
SortDesc(s, Key(_)) ==
  LET sorted == SortPairsDesc([i \in 1..Len(s) |-> <<Key(s[i]), s[i]>>])
  IN [i \in 1..Len(s) |-> sorted[i][2]]

\* ------------------------------------------------------------------------
\* Program constants
\* ------------------------------------------------------------------------
CACHE_TTL_MS == 300000

CACHE_MAX == 500

MAX_BOOST == 1500

CAP_SECONDS == 300

MIN_SESSIONS == 2

\* the value of a field a JSON object does not carry
Undefined == -1000000

\* userId of an anonymous visitor (params.userId || null)
Null == "null"

\* ------------------------------------------------------------------------
\* Lexical type matcher
\* ------------------------------------------------------------------------
UpperCase == <<"A","B","C","D","E","F","G","H","I","J","K","L","M","N","O","P","Q","R","S","T","U","V","W","X","Y","Z">>

LowerCase == <<"a","b","c","d","e","f","g","h","i","j","k","l","m","n","o","p","q","r","s","t","u","v","w","x","y","z">>

STOP_WORDS == {<<"a">>, <<"a","n">>, <<"t","h","e">>, <<"a","n","d">>, <<"o","r">>, <<"w","i","t","h">>, <<"i","n">>, <<"f","o","r">>, <<"o","f">>, <<"t","o">>, <<"a","t">>, <<"b","y">>, <<"f","r","o","m">>, <<"i","s">>, <<"i","t","s">>, <<"i","t">>, <<"t","h","i","s">>, <<"t","h","a","t">>, <<"o","n">>, <<"a","s">>, <<"b","e">>, <<"m","y">>, <<"o","u","r">>, <<"y","o","u","r">>}

\* the characters /[\s\-_/]/ matches among those a title is written with
Separators == {" ", "-", "_", "/"}

ToLowerChar(c) ==
  IF \E i \in 1..26 : UpperCase[i] = c
  THEN LowerCase[CHOOSE i \in 1..26 : UpperCase[i] = c]
  ELSE c

toLowerCase(s) == [i \in 1..Len(s) |-> ToLowerChar(s[i])]

\* s.split(/[\s\-_/]+/) from position i on; cur is the word being read
RECURSIVE SplitFrom(_, _, _, _)
SplitFrom(s, i, cur, inSep) ==
  IF i > Len(s) THEN <<cur>>
  ELSE IF s[i] \in Separators
       THEN IF inSep THEN SplitFrom(s, i + 1, cur, TRUE)
                     ELSE <<cur>> \o SplitFrom(s, i + 1, <<>>, TRUE)
       ELSE SplitFrom(s, i + 1, Append(cur, s[i]), FALSE)

\* w.replace(/[^a-z]/g, '')
StripNonLetters(w) == SelectSeq(w, LAMBDA c : c \in Range(LowerCase))

getTitleTokens(title) ==
  IF title = <<>> THEN <<>>
  ELSE LET words    == SplitFrom(toLowerCase(title), 1, <<>>, FALSE)
           stripped == [i \in 1..Len(words) |-> StripNonLetters(words[i])]
       IN SelectSeq(stripped, LAMBDA w : Len(w) >= 3 /\ w \notin STOP_WORDS)

\* String.prototype.includes
Includes(hay, needle) ==
  \E i \in 0..(Len(hay) - Len(needle)) : SubSeq(hay, i + 1, i + Len(needle)) = needle

computeTypeScore(sourceTitleTokens, candidateTitle) ==
  Len(SelectSeq(sourceTitleTokens, LAMBDA t : Includes(toLowerCase(candidateTitle), t)))

\* ------------------------------------------------------------------------
\* Catalog: the products collection, per shop, in the order find() returns
\* ------------------------------------------------------------------------
Shops == {"shop", "solo", "wide"}

WideLetters == <<"A","B","C","D","E","F","G","H">>

Catalogs ==
  [shop |-> <<
     [productId |-> 104, title |-> <<"L","e","a","t","h","e","r"," ","W","a","l","l","e","t">>,
      category |-> "accessories", brand |-> "", color |-> "gold", keywords |-> <<"leather", "gift">>],
     [productId |-> 101, title |-> <<"G","o","l","d"," ","B","r","a","c","e","l","e","t">>,
      category |-> "jewelry", brand |-> "", color |-> "gold", keywords |-> <<"gold", "jewelry">>],
     [productId |-> 102, title |-> <<"S","i","l","v","e","r"," ","B","r","a","c","e","l","e","t">>,
      category |-> "jewelry", brand |-> "", color |-> "silver", keywords |-> <<"silver", "jewelry">>],
     [productId |-> 103, title |-> <<"P","e","a","r","l"," ","N","e","c","k","l","a","c","e">>,
      category |-> "jewelry", brand |-> "", color |-> "", keywords |-> <<"pearl", "jewelry">>] >>,
   solo |-> <<
     [productId |-> 101, title |-> <<"G","o","l","d"," ","B","r","a","c","e","l","e","t">>,
      category |-> "jewelry", brand |-> "", color |-> "gold", keywords |-> <<"gold", "jewelry">>] >>,
   wide |-> [i \in 1..8 |->
               [productId |-> 200 + i,
                title |-> <<"M","u","g"," ">> \o <<WideLetters[i]>>,
                category |-> IF i % 2 = 1 THEN "kitchen" ELSE "home",
                brand |-> "", color |-> "", keywords |-> <<"mug">>]]]

Titles == UNION {{Catalogs[sh][i].title : i \in 1..Len(Catalogs[sh])} : sh \in Shops}

\* getTitleTokens and computeTypeScore tabulated over the catalog titles:
\* the same values, computed once
TitleTokens == [t \in Titles |-> getTitleTokens(t)]

AllTokens == UNION {Range(TitleTokens[t]) : t \in Titles}

TokenInTitle == [tok \in AllTokens, t \in Titles |-> computeTypeScore(<<tok>>, t) = 1]

TypeScore(sourceTitleTokens, candidateTitle) ==
  Len(SelectSeq(sourceTitleTokens, LAMBDA t : TokenInTitle[t, candidateTitle]))

\* a product id no product of any shop has
UnknownId == 999

\* An id as a caller passes it: the number n, or the string of its digits
\* (a route parameter).  String(id) is the same text for both.
NumId(n) == [n |-> n, str |-> FALSE]

StrId(n) == [n |-> n, str |-> TRUE]

\* MongoDB equality on productId, which is stored as a number: a string
\* never equals a number
MongoMatch(p, id) == ~id.str /\ p.productId = id.n

\* cartProductIds.includes(p.productId): strict equality
IncludesStrict(ids, p) == \E i \in 1..Len(ids) : ~ids[i].str /\ ids[i].n = p.productId

\* String(x) of every id of a list, as a set (new Set(ids.map(String)))
StringSet(ids) == {ids[i].n : i \in 1..Len(ids)}

getProductsByShop(shopId) == Catalogs[shopId]

\* findOne({ shopId, productId }): the sequence is empty when there is none
getProductById(shopId, productId) ==
  SelectSeq(Catalogs[shopId], LAMBDA p : MongoMatch(p, productId))

ProductIds(products) == {products[i].productId : i \in 1..Len(products)}

\* ------------------------------------------------------------------------
\* Fallback ranking engine
\* ------------------------------------------------------------------------
calculateSimilarity(product1, product2) ==
  LET cat   == IF product1.category # "" /\ product2.category # ""
                  /\ product1.category = product2.category THEN 40 ELSE 0
      brand == IF product1.brand # "" /\ product2.brand # ""
                  /\ product1.brand = product2.brand THEN 25 ELSE 0
      color == IF product1.color # "" /\ product2.color # ""
                  /\ product1.color = product2.color THEN 15 ELSE 0
      overlap == Len(SelectSeq(product1.keywords, LAMBDA k : k \in Range(product2.keywords)))
  IN cat + brand + color + Min(overlap * 5, 20)

\* a recommendation: the product (by id) with the fields the engine adds
Rec(n, reason, conf, type, source, score) ==
  [productId |-> n, aiReason |-> reason, confidence |-> conf,
   recommendationType |-> type, historySource |-> source, historyScore |-> score,
   engagementBoost |-> 0]

\* RandomProducts without .limit(limit): every product of the shop
RandomProductsUnlimited(shopId, limit, type) ==
  [i \in 1..Len(Catalogs[shopId]) |->
     Rec(Catalogs[shopId][i].productId, "You might also like this product",
         5000, type, "", 0)]

\* find({ shopId }).limit(limit) with the last-resort reason and confidence
RandomProducts(shopId, limit, type) ==
  LET randomProducts == Take(Catalogs[shopId], limit)
  IN [i \in 1..Len(randomProducts) |->
        Rec(randomProducts[i].productId, "You might also like this product",
            5000, type, "", 0)]

\* fallbackRecommendations without the sort by similarity
fallbackRecommendationsUnsorted(shopId, currentProductId, limit) ==
  LET found == getProductById(shopId, currentProductId)
  IN IF found = <<>>
     THEN RandomProducts(shopId, limit, "similar")
     ELSE LET currentProduct == found[1]
              otherProducts  == SelectSeq(Catalogs[shopId],
                                          LAMBDA p : p.productId # currentProductId.n)
              top    == Take(otherProducts, limit)
          IN [i \in 1..Len(top) |->
                Rec(top[i].productId, "Recommended based on product similarity",
                    calculateSimilarity(currentProduct, top[i]) * 100,
                    "similar", "", 0)]

fallbackRecommendations(shopId, currentProductId, limit) ==
  LET found == getProductById(shopId, currentProductId)
  IN IF found = <<>>
     THEN RandomProducts(shopId, limit, "similar")
     ELSE LET currentProduct == found[1]
              otherProducts  == SelectSeq(Catalogs[shopId],
                                          LAMBDA p : p.productId # currentProductId.n)
              sorted == SortDesc(otherProducts,
                                 LAMBDA p : calculateSimilarity(currentProduct, p))
              top    == Take(sorted, limit)
          IN [i \in 1..Len(top) |->
                Rec(top[i].productId, "Recommended based on product similarity",
                    calculateSimilarity(currentProduct, top[i]) * 100,
                    "similar", "", 0)]

RECURSIVE SumSimilarity(_, _)
SumSimilarity(cartProducts, product) ==
  IF cartProducts = <<>> THEN 0
  ELSE calculateSimilarity(Head(cartProducts), product)
         + SumSimilarity(Tail(cartProducts), product)

\* min(averageScore / 100, 0.9) in units of 1/10000; the division is exact
\* for one or two resolved cart products, the carts of this model
CartConfidence(cartProducts, product) ==
  Min((SumSimilarity(cartProducts, product) * 100) \div Len(cartProducts), 9000)

fallbackCartRecommendations(shopId, cartProductIds, limit) ==
  LET cartProducts == SelectSeq(Catalogs[shopId],
                        LAMBDA p : \E i \in 1..Len(cartProductIds) : MongoMatch(p, cartProductIds[i]))
  IN IF cartProducts = <<>>
     THEN RandomProducts(shopId, limit, "complementary")
     ELSE LET otherProducts == SelectSeq(Catalogs[shopId],
                                         LAMBDA p : ~IncludesStrict(cartProductIds, p))
              \* sorting by the sum is sorting by the average: one divisor
              sorted == SortDesc(otherProducts, LAMBDA p : SumSimilarity(cartProducts, p))
              top    == Take(sorted, limit)
          IN [i \in 1..Len(top) |->
                Rec(top[i].productId, "Complements your cart items",
                    CartConfidence(cartProducts, top[i]), "complementary", "", 0)]

\* ------------------------------------------------------------------------
\* Response parser and ranking & padding engine
\* ------------------------------------------------------------------------
\* what the remote call produced: status "error" (transport / HTTP / empty
\* content), "malformed" (no JSON array in the text, or invalid JSON), or
\* "ok" with the parsed array: entries [productId, confidence]
RemoteError == [status |-> "error", entries |-> <<>>]

RemoteMalformed == [status |-> "malformed", entries |-> <<>>]

RemoteOk(entries) == [status |-> "ok", entries |-> entries]

\* the reason text of an entry the model wrote
ModelReason == "reason given by the model"

parseGroqRecommendations(entries, candidateProducts) ==
  LET resolvable == SelectSeq(entries, LAMBDA e : e.productId \in ProductIds(candidateProducts))
  IN [i \in 1..Len(resolvable) |->
        Rec(resolvable[i].productId, ModelReason, resolvable[i].confidence,
            "complementary", "", 0)]

TitleOf(products, n) == (CHOOSE p \in Range(products) : p.productId = n).title

RecIds(recs) == {recs[i].productId : i \in 1..Len(recs)}

\* PadToLimit with the last two tiers in the other order: any candidate
\* first, same-type candidates after
PadToLimitAnyFirst(base, results, candidateProducts, tokens, limit, sameTypeReason) ==
  IF Len(base) >= limit THEN Take(base, limit)
  ELSE LET combined1 == base \o SelectSeq(results, LAMBDA p : p.productId \notin RecIds(base))
           anyOne ==
             IF Len(combined1) < limit
             THEN LET c == Take(SelectSeq(candidateProducts,
                                  LAMBDA p : p.productId \notin RecIds(combined1)),
                                1)
                  IN [i \in 1..Len(c) |->
                        Rec(c[i].productId, "You might also like", 5000, "similar", "", 0)]
             ELSE <<>>
           combined2 == combined1 \o anyOne
           dbSameType ==
             IF Len(combined2) < limit
             THEN LET c == Take(SelectSeq(candidateProducts,
                                  LAMBDA p : p.productId \notin RecIds(combined2)
                                             /\ TypeScore(tokens, p.title) > 0),
                                limit - Len(combined2))
                  IN [i \in 1..Len(c) |->
                        Rec(c[i].productId, sameTypeReason, 6500, "similar", "", 0)]
             ELSE <<>>
       IN Take(combined2 \o dbSameType, limit)

\* PadToLimit without the same-type tier: any candidate pads
PadToLimitNoTypeTier(base, results, candidateProducts, tokens, limit, sameTypeReason) ==
  IF Len(base) >= limit THEN Take(base, limit)
  ELSE LET combined1 == base \o SelectSeq(results, LAMBDA p : p.productId \notin RecIds(base))
           dbAny ==
             IF Len(combined1) < limit
             THEN LET c == Take(SelectSeq(candidateProducts,
                                  LAMBDA p : p.productId \notin RecIds(combined1)),
                                limit - Len(combined1))
                  IN [i \in 1..Len(c) |->
                        Rec(c[i].productId, "You might also like", 5000, "similar", "", 0)]
             ELSE <<>>
       IN Take(combined1 \o dbAny, limit)

\* the padding tiers shared by analyzeWithGroq and analyzeCartWithGroq:
\* base, then the other parsed results, then same-type candidates
\* (confidence 0.65), then any candidate (0.5), cut to limit
PadToLimit(base, results, candidateProducts, tokens, limit, sameTypeReason) ==
  IF Len(base) >= limit THEN Take(base, limit)
  ELSE LET combined1 == base \o SelectSeq(results, LAMBDA p : p.productId \notin RecIds(base))
           dbSameType ==
             IF Len(combined1) < limit
             THEN LET c == Take(SelectSeq(candidateProducts,
                                  LAMBDA p : p.productId \notin RecIds(combined1)
                                             /\ TypeScore(tokens, p.title) > 0),
                                limit - Len(combined1))
                  IN [i \in 1..Len(c) |->
                        Rec(c[i].productId, sameTypeReason, 6500, "similar", "", 0)]
             ELSE <<>>
           combined2 == combined1 \o dbSameType
           dbAny ==
             IF Len(combined2) < limit
             THEN LET c == Take(SelectSeq(candidateProducts,
                                  LAMBDA p : p.productId \notin RecIds(combined2)),
                                limit - Len(combined2))
                  IN [i \in 1..Len(c) |->
                        Rec(c[i].productId, "You might also like", 5000, "similar", "", 0)]
             ELSE <<>>
       IN Take(combined2 \o dbAny, limit)

\* The result is [threw, recs]: threw when the remote call or the parser
\* raised, recs the list returned otherwise.
analyzeWithGroq(currentProduct, candidateProducts, limit, userProfile, outcome) ==
  IF outcome.status # "ok" THEN [threw |-> TRUE, recs |-> <<>>]
  ELSE LET currentTokens == TitleTokens[currentProduct.title]
           results  == parseGroqRecommendations(outcome.entries, candidateProducts)
           filtered == SelectSeq(results,
                         LAMBDA p : TypeScore(currentTokens,
                                      TitleOf(candidateProducts, p.productId)) > 0)
           base == IF Len(userProfile) > 0 THEN results
                   ELSE IF Len(filtered) > 0 THEN filtered ELSE results
       IN [threw |-> FALSE,
           recs  |-> PadToLimit(base, results, candidateProducts, currentTokens, limit,
                                "Similar product you might like")]

RECURSIVE FlatTokens(_)
FlatTokens(products) ==
  IF products = <<>> THEN <<>>
  ELSE TitleTokens[Head(products).title] \o FlatTokens(Tail(products))

analyzeCartWithGroq(cartProducts, candidateProducts, limit, userProfile, outcome) ==
  IF outcome.status # "ok" THEN [threw |-> TRUE, recs |-> <<>>]
  ELSE LET cartTokens == Dedup(FlatTokens(cartProducts))
           results  == parseGroqRecommendations(outcome.entries, candidateProducts)
           filtered == IF Len(userProfile) > 0 THEN results
                       ELSE SelectSeq(results,
                              LAMBDA p : TypeScore(cartTokens,
                                           TitleOf(candidateProducts, p.productId)) > 0)
       IN [threw |-> FALSE,
           recs  |-> PadToLimit(filtered, results, candidateProducts, cartTokens, limit,
                                "Related to your cart items")]

\* ------------------------------------------------------------------------
\* History profile and history merge
\* ------------------------------------------------------------------------
\* userProfile  : <<[productId, totalTimeSeconds]>>, at most 5, by time desc
\* cartHistory  : <<[productId, count]>>, at most 8, by count desc
\* (productId is the id's text, which the model identifies with its number)
\* stored       : the user's events of the last 30 days in the shop, grouped
\*                by product in the order the products were first seen

PROFILE_LIMIT == 5

CART_HISTORY_LIMIT == 8

\* getUserInterestProfile / getUserCartHistory: [] without a user id or when
\* the query fails, else the $sort and $limit of the grouped events
\* getUserInterestProfile whose failed query still answers
getUserInterestProfileAnswersAnyway(userId, stored, queryFails) ==
  IF userId = Null THEN <<>>
  ELSE Take(SortDesc(stored, LAMBDA row : row.totalTimeSeconds), PROFILE_LIMIT)

getUserInterestProfile(userId, stored, queryFails) ==
  IF userId = Null THEN <<>>
  ELSE IF queryFails THEN <<>>
  ELSE Take(SortDesc(stored, LAMBDA row : row.totalTimeSeconds), PROFILE_LIMIT)

getUserCartHistory(userId, stored, queryFails) ==
  IF userId = Null THEN <<>>
  ELSE IF queryFails THEN <<>>
  ELSE Take(SortDesc(stored, LAMBDA row : row.count), CART_HISTORY_LIMIT)

\* the enrichment of rawCartHistory with titles keeps the catalog's products
EnrichCartHistory(rawCartHistory, allProducts, dropIds) ==
  SelectSeq(rawCartHistory,
            LAMBDA ch : ch.productId \notin dropIds /\ ch.productId \in ProductIds(allProducts))

\* score || 0
OrZero(x) == IF x = Undefined THEN 0 ELSE x

buildHistoryCandidates(allProducts, userProfile, cartHistory, excludeSet) ==
  LET keptTime == SelectSeq(userProfile,
                    LAMBDA p : p.productId \notin excludeSet
                               /\ p.productId \in ProductIds(allProducts))
      timeRecs == [i \in 1..Len(keptTime) |->
                     Rec(keptTime[i].productId, "Based on your browsing history", 6000,
                         "complementary", "time", OrZero(keptTime[i].totalTimeSeconds))]
      timeItems == SortDesc(timeRecs, LAMBDA r : r.historyScore)
      keptCart == SelectSeq(cartHistory,
                    LAMBDA c : c.productId \notin excludeSet
                               /\ c.productId \in ProductIds(allProducts))
      cartRecs == [i \in 1..Len(keptCart) |->
                     Rec(keptCart[i].productId, "Based on your past cart activity", 6200,
                         "complementary", "cart", OrZero(keptCart[i].count))]
      cartItems == SortDesc(cartRecs, LAMBDA r : r.historyScore)
  IN [time |-> timeItems, cart |-> cartItems,
      all  |-> SortDesc(timeItems \o cartItems, LAMBDA r : r.historyScore)]

\* add(rec) without the check of the added set
AddRecNoDedup(final, rec) == Append(final, rec)

\* the closure add(rec) of mergeHistoryWithRecommendations
AddRec(final, rec) ==
  IF rec.productId \in RecIds(final) THEN final ELSE Append(final, rec)

\* for (const rec of recs) { if (final.length >= cap) break; add(rec); }
RECURSIVE AddUpTo(_, _, _)
AddUpTo(final, recs, cap) ==
  IF recs = <<>> \/ Len(final) >= cap THEN final
  ELSE AddUpTo(AddRec(final, Head(recs)), Tail(recs), cap)

\* mergeHistoryWithRecommendations with no share kept for the ranking: the
\* history pool fills up to limit
mergeHistoryNoQuota(recommendations, history, limit) ==
  LET required == (IF Len(history.time) > 0 THEN <<history.time[1]>> ELSE <<>>)
                  \o (IF Len(history.cart) > 0 THEN <<history.cart[1]>> ELSE <<>>)
      final1 == AddUpTo(<<>>, required, limit)
      historyPool == SelectSeq(history.all, LAMBDA h : h.productId \notin RecIds(final1))
      final2 == AddUpTo(final1, historyPool, limit)
      final3 == AddUpTo(final2, recommendations, limit)
  IN Take(final3, limit)

\* mergeHistoryWithRecommendations filling from the recommendations first
\* and from the history after
mergeRecommendationsFirst(recommendations, history, limit) ==
  LET final1 == AddUpTo(<<>>, recommendations, limit)
      final2 == AddUpTo(final1, history.all, limit)
  IN Take(final2, limit)

mergeHistoryWithRecommendations(recommendations, history, limit) ==
  LET required == (IF Len(history.time) > 0 THEN <<history.time[1]>> ELSE <<>>)
                  \o (IF Len(history.cart) > 0 THEN <<history.cart[1]>> ELSE <<>>)
      final1 == AddUpTo(<<>>, required, limit)
      targetHistoryCount == Min(limit, Max(Len(final1), limit \div 2))
      historyPool == SelectSeq(history.all, LAMBDA h : h.productId \notin RecIds(final1))
      final2 == AddUpTo(final1, historyPool, targetHistoryCount)
      final3 == AddUpTo(final2, recommendations, limit)
      final4 == AddUpTo(final3, historyPool, limit)
  IN Take(final4, limit)

\* ------------------------------------------------------------------------
\* Engagement booster
\* ------------------------------------------------------------------------
\* rows: what the aggregation answers, <<[productId, avgTimeSeconds, sessions]>>,
\* one row per product; queryFails: the aggregation raised.
\* The boost map is a function from product ids to bonuses.
Bonus(avgTimeSeconds) ==
  \* parseFloat(((min(avg, 300) / 300) * 0.15).toFixed(4)), in 1/10000
  (2 * Min(avgTimeSeconds, CAP_SECONDS) * MAX_BOOST + CAP_SECONDS) \div (2 * CAP_SECONDS)

getEngagementBoosts(productIds, rows, queryFails) ==
  IF queryFails THEN <<>>
  ELSE LET kept == SelectSeq(rows, LAMBDA row : row.productId \in productIds
                                                /\ ~(row.sessions < MIN_SESSIONS))
       IN [n \in {kept[i].productId : i \in 1..Len(kept)} |->
             Bonus((CHOOSE row \in Range(kept) : row.productId = n).avgTimeSeconds)]

\* rec.confidence || d
ConfOr(c, d) == IF c = Undefined \/ c = 0 THEN d ELSE c

\* applyEngagementBoosts keeping only the entries that got a bonus
applyEngagementBoostsOnlyBoosted(recommendations, boostMap) ==
  IF DOMAIN boostMap = {} THEN recommendations
  ELSE LET kept == SelectSeq(recommendations, LAMBDA rec : rec.productId \in DOMAIN boostMap)
           boosted ==
             [i \in 1..Len(kept) |->
                [kept[i] EXCEPT !.confidence = Min(ConfOr(kept[i].confidence, 5000)
                                                   + boostMap[kept[i].productId], 10000),
                                !.engagementBoost = boostMap[kept[i].productId]]]
       IN SortDesc(boosted, LAMBDA r : ConfOr(r.confidence, 0))

applyEngagementBoosts(recommendations, boostMap) ==
  IF DOMAIN boostMap = {} THEN recommendations
  ELSE LET boosted ==
             [i \in 1..Len(recommendations) |->
                LET rec   == recommendations[i]
                    bonus == IF rec.productId \in DOMAIN boostMap
                             THEN boostMap[rec.productId] ELSE 0
                IN IF bonus = 0 THEN rec
                   ELSE [rec EXCEPT !.confidence = Min(ConfOr(rec.confidence, 5000) + bonus, 10000),
                                    !.engagementBoost = bonus]]
       IN SortDesc(boosted, LAMBDA r : ConfOr(r.confidence, 0))

\* ------------------------------------------------------------------------
\* Recommendation cache
\* ------------------------------------------------------------------------
\* The text of a key is kept as its segments.  productIdText is the list of
\* segments the caller passes for ${productId}.
UserOrAnon(userId) == IF userId = Null THEN "anon" ELSE userId

getCacheKey(type, shopId, productIdText, userId) ==
  <<type, shopId>> \o productIdText \o <<UserOrAnon(userId)>>

\* decimal digits of n, String(n)
RECURSIVE Digits(_)
Digits(n) == IF n < 10 THEN <<n>> ELSE Append(Digits(n \div 10), n % 10)

\* a <= b in the order Array.prototype.sort() uses without a comparator:
\* the texts compared code unit by code unit
RECURSIVE TextLeq(_, _)
TextLeq(a, b) ==
  IF a = <<>> THEN TRUE
  ELSE IF b = <<>> THEN FALSE
  ELSE IF Head(a) # Head(b) THEN Head(a) < Head(b)
  ELSE TextLeq(Tail(a), Tail(b))

RECURSIVE InsertText(_, _)
InsertText(x, s) ==
  IF s = <<>> THEN <<x>>
  ELSE IF TextLeq(Digits(Head(s)), Digits(x))
       THEN <<Head(s)>> \o InsertText(x, Tail(s))
       ELSE <<x>> \o s

\* the ids in the order given, without the sort
UnsortedIds(ids) == [i \in 1..Len(ids) |-> ids[i].n]

\* [...cartProductIds].sort(), as the texts join(',') then writes
RECURSIVE SortedIds(_)
SortedIds(ids) ==
  IF ids = <<>> THEN <<>>
  ELSE InsertText(ids[Len(ids)].n, SortedIds(SubSeq(ids, 1, Len(ids) - 1)))

ProductCacheKey(shopId, productId, userId) ==
  getCacheKey("product", shopId, <<<<productId.n>>>>, userId)

\* getCacheKey('cart', shopId, `${sortedIds}:${userId || 'anon'}`): the
\* fourth argument is not passed, so the key ends in "anon"
CartCacheKey(shopId, cartProductIds, userId) ==
  getCacheKey("cart", shopId, <<SortedIds(cartProductIds), UserOrAnon(userId)>>, Null)

\* the Map: entries [key, data, timestamp] in insertion order
CacheIndex(c, key) == {i \in 1..Len(c) : c[i].key = key}

CacheHas(c, key) == CacheIndex(c, key) # {}

CacheEntry(c, key) == c[CHOOSE i \in CacheIndex(c, key) : TRUE]

CacheDelete(c, key) == SelectSeq(c, LAMBDA e : e.key # key)

\* Map.set that adds an entry also when the key is present
CacheSetAppends(c, key, data, t) ==
  Append(c, [key |-> key, data |-> data, timestamp |-> t])

\* Map.set: a present key keeps its place
CacheSet(c, key, data, t) ==
  IF CacheHas(c, key)
  THEN [i \in 1..Len(c) |-> IF c[i].key = key
                            THEN [key |-> key, data |-> data, timestamp |-> t]
                            ELSE c[i]]
  ELSE Append(c, [key |-> key, data |-> data, timestamp |-> t])

\* getFromCache with the entry expiring at the age of the TTL already
getFromCacheExpireAtTTL(c, key, t) ==
  IF ~CacheHas(c, key) THEN [hit |-> FALSE, data |-> <<>>, cache |-> c]
  ELSE IF t - CacheEntry(c, key).timestamp >= CACHE_TTL_MS
       THEN [hit |-> FALSE, data |-> <<>>, cache |-> CacheDelete(c, key)]
       ELSE [hit |-> TRUE, data |-> CacheEntry(c, key).data, cache |-> c]

\* getFromCache: [hit, data, cache], cache being the Map afterwards
getFromCache(c, key, t) ==
  IF ~CacheHas(c, key) THEN [hit |-> FALSE, data |-> <<>>, cache |-> c]
  ELSE IF t - CacheEntry(c, key).timestamp > CACHE_TTL_MS
       THEN [hit |-> FALSE, data |-> <<>>, cache |-> CacheDelete(c, key)]
       ELSE [hit |-> TRUE, data |-> CacheEntry(c, key).data, cache |-> c]

\* setCache that stores nothing
setCacheNever(c, key, data, t) == c

\* setCache that never evicts
setCacheNoEviction(c, key, data, t) == CacheSet(c, key, data, t)

setCache(c, key, data, t) ==
  LET evicted == IF Len(c) > CACHE_MAX THEN Tail(c) ELSE c
  IN CacheSet(evicted, key, data, t)

clearUserProductCache(c, shopId, productId, userId) ==
  CacheDelete(c, ProductCacheKey(shopId, productId, userId))

\* ------------------------------------------------------------------------
\* State
\* ------------------------------------------------------------------------
VARIABLES
  cache,    \* recommendationCache: <<[key, data, timestamp]>> in insertion order
  now,      \* Date.now()
  store,    \* history store: [browsing, carted], each a function of the user id
  req,      \* per request slot: position and locals of the running request
  track,    \* the time-tracking action: position and the record it saves
  returned, \* history: the calls that have returned and were not invalidated since
  pending,  \* history: keys the invalidation hook ran for, no call begun since
  watch,    \* history: per request slot, what held when the request began
  used,     \* number of requests, clock steps, tracking events so far
  faults,   \* history: per request slot, which of its side queries failed
  lineage   \* history: the data each hook run covered, the read behind each entry

vars == <<cache, now, store, req, track, returned, pending, watch, used, faults, lineage>>

\* the variables that only record what has happened
history == <<returned, pending, watch, used, faults, lineage>>

Procs == {1, 2}

KnownUsers == {"u1"}

NoOutcome == [status |-> "none", entries |-> <<>>]

\* the remote call that never settles: fetch is given no signal and no timer
RemoteSilent == [status |-> "silent", entries |-> <<>>]

NoTrack == [pc |-> "idle", shopId |-> "", productId |-> 0, userId |-> Null]

NoWatch == [prior |-> {}, entry |-> {}, afterHook |-> FALSE, owed |-> 0, basis |-> 0]

NoLineage == [hooked |-> {}, origin |-> {}]

NoneUsed == [requests |-> 0, ticks |-> 0, tracks |-> 0]

NoFaults == [profile |-> FALSE, cart |-> FALSE, engagement |-> FALSE]

Idle ==
  [pc |-> "idle", call |-> [kind |-> "", shopId |-> "", subject |-> <<>>, limit |-> 0,
                            userId |-> Null],
   userProfile |-> <<>>, cartHistory |-> <<>>, outcome |-> NoOutcome,
   recommendations |-> <<>>, merged |-> <<>>, boostMap |-> <<>>, result |-> <<>>,
   path |-> "", remoteCalls |-> 0]

\* a call: [kind, shopId, subject, limit, userId]; subject is the list of
\* ids passed (one id for kind "product")
KeyOf(call) ==
  IF call.kind = "product"
  THEN ProductCacheKey(call.shopId, call.subject[1], call.userId)
  ELSE CartCacheKey(call.shopId, call.subject, call.userId)

\* the products of the shop that are not the subject(s), String-compared
OtherProducts(call) ==
  SelectSeq(getProductsByShop(call.shopId),
            LAMBDA p : p.productId \notin StringSet(call.subject))

ValidCartProducts(call) ==
  SelectSeq(getProductsByShop(call.shopId),
            LAMBDA p : p.productId \in StringSet(call.subject))

\* the subject as the request resolves it: findOne for a product, the
\* String-compared filter for a cart
SubjectProducts(call) ==
  IF call.kind = "product"
  THEN getProductById(call.shopId, call.subject[1])
  ELSE ValidCartProducts(call)

\* the fallback of the request's kind
Fallback(call) ==
  IF call.kind = "product"
  THEN fallbackRecommendations(call.shopId, call.subject[1], call.limit)
  ELSE fallbackCartRecommendations(call.shopId, call.subject, call.limit)

\* the try/catch without the fallback: a failed analysis leaves no list
RecommendNoFallback(call, userProfile, outcome) ==
  LET a == IF call.kind = "product"
           THEN analyzeWithGroq(SubjectProducts(call)[1], OtherProducts(call),
                                call.limit, userProfile, outcome)
           ELSE analyzeCartWithGroq(SubjectProducts(call), OtherProducts(call),
                                    call.limit, userProfile, outcome)
  IN IF a.threw THEN <<>> ELSE a.recs

\* the try/catch around analyzeWithGroq / analyzeCartWithGroq
Recommend(call, userProfile, outcome) ==
  LET a == IF call.kind = "product"
           THEN analyzeWithGroq(SubjectProducts(call)[1], OtherProducts(call),
                                call.limit, userProfile, outcome)
           ELSE analyzeCartWithGroq(SubjectProducts(call), OtherProducts(call),
                                    call.limit, userProfile, outcome)
  IN IF a.threw \/ Len(a.recs) = 0 THEN Fallback(call) ELSE a.recs

HistoryCandidates(call, userProfile, cartHistory) ==
  buildHistoryCandidates(getProductsByShop(call.shopId), userProfile, cartHistory,
                         StringSet(call.subject))

\* ------------------------------------------------------------------------
\* findUpsellProducts / findCartUpsellProducts, one action per stretch
\* between two awaits
\* ------------------------------------------------------------------------
\* entry: the cache lookup; a hit returns the cached list.  A slot whose
\* request has returned is free for the next one.
Begin(r, call) ==
  /\ req[r].pc \in {"idle", "done"}
  /\ LET look == getFromCache(cache, KeyOf(call), now)
     IN /\ cache' = look.cache
        /\ req' = [req EXCEPT ![r] =
                     IF look.hit
                     THEN [Idle EXCEPT !.pc = "done", !.call = call,
                                       !.result = look.data, !.path = "hit"]
                     ELSE [Idle EXCEPT !.pc = "fetch", !.call = call]]
  /\ UNCHANGED <<now, store>>

\* the Promise.all of catalog and history reads has resolved
Fetch(r, profileFails, cartFails) ==
  /\ req[r].pc = "fetch"
  /\ LET call == req[r].call
         userProfile == getUserInterestProfile(call.userId,
                          IF call.userId \in KnownUsers THEN store.browsing[call.userId] ELSE <<>>,
                          profileFails)
         rawCartHistory == getUserCartHistory(call.userId,
                             IF call.userId \in KnownUsers THEN store.carted[call.userId] ELSE <<>>,
                             cartFails)
         cartHistory == EnrichCartHistory(rawCartHistory, getProductsByShop(call.shopId),
                          IF call.kind = "cart" THEN StringSet(call.subject) ELSE {})
     IN req' = [req EXCEPT ![r] =
                  IF SubjectProducts(call) = <<>>
                  THEN \* throw, caught by the outer catch
                       [@ EXCEPT !.pc = "done", !.result = Fallback(call),
                                 !.path = "lastresort"]
                  ELSE IF Len(OtherProducts(call)) = 0
                  THEN [@ EXCEPT !.pc = "done", !.result = <<>>, !.path = "empty"]
                  ELSE [@ EXCEPT !.pc = "remote", !.userProfile = userProfile,
                                 !.cartHistory = cartHistory, !.remoteCalls = 1]]
  /\ UNCHANGED <<cache, now, store>>

\* the remote call has completed with outcome; ranking or fallback, merge
Remote(r, outcome) ==
  /\ req[r].pc = "remote"
  /\ req[r].outcome = NoOutcome
  /\ LET call == req[r].call
         recommendations == Recommend(call, req[r].userProfile, outcome)
         merged == mergeHistoryWithRecommendations(recommendations,
                     HistoryCandidates(call, req[r].userProfile, req[r].cartHistory),
                     call.limit)
     IN req' = [req EXCEPT ![r] =
                  [@ EXCEPT !.pc = "boost", !.outcome = outcome,
                            !.recommendations = recommendations, !.merged = merged]]
  /\ UNCHANGED <<cache, now, store>>

\* the remote end has gone silent: the await of fetch stays pending
RemoteStalls(r) ==
  /\ req[r].pc = "remote"
  /\ req[r].outcome = NoOutcome
  /\ req' = [req EXCEPT ![r] = [@ EXCEPT !.outcome = RemoteSilent]]
  /\ UNCHANGED <<cache, now, store>>

\* the engagement aggregation has completed; boost, store, return
Boost(r, rows, queryFails) ==
  /\ req[r].pc = "boost"
  /\ LET boostMap == getEngagementBoosts(RecIds(req[r].merged), rows, queryFails)
         boosted  == applyEngagementBoosts(req[r].merged, boostMap)
     IN /\ cache' = setCache(cache, KeyOf(req[r].call), boosted, now)
        /\ req' = [req EXCEPT ![r] =
                     [@ EXCEPT !.pc = "done", !.boostMap = boostMap,
                               !.result = boosted, !.path = "computed"]]
  /\ UNCHANGED <<now, store>>

\* ------------------------------------------------------------------------
\* Input domains
\* ------------------------------------------------------------------------
MaxLimit == 3

MaxModelLen == 2

Limits == 1..MaxLimit

SeqsUpTo(S, n) == UNION {[1..k -> S] : k \in 0..n}

\* ids the model may name: candidates, the subject itself, an invented id
ModelIds == {101, 102, 103, 104, UnknownId}

\* confidences the model may write: in range, and above 1
ModelConfs == {8500, 15000}

\* the model filling every slot with one product
ModelRepeats ==
  RemoteOk([i \in 1..MaxLimit |-> [productId |-> 101, confidence |-> 8500]])

ModelOutcomes ==
  {RemoteError, RemoteMalformed, ModelRepeats}
  \cup {RemoteOk([i \in 1..Len(ids) |-> [productId |-> ids[i], confidence |-> c]]) :
          ids \in SeqsUpTo(ModelIds, MaxModelLen), c \in ModelConfs}

\* answers of the history store for user u1
BrowsingAnswers ==
  { <<>>,
    <<[productId |-> 101, totalTimeSeconds |-> 300],
      [productId |-> 103, totalTimeSeconds |-> 120]>>,
    <<[productId |-> 104, totalTimeSeconds |-> 200]>> }

CartedAnswers ==
  { <<>>,
    <<[productId |-> 102, count |-> 3], [productId |-> 104, count |-> 1]>> }

StoreStates ==
  {[browsing |-> [u \in KnownUsers |-> b], carted |-> [u \in KnownUsers |-> c]] :
     b \in BrowsingAnswers, c \in CartedAnswers}

\* answers of the engagement aggregation
EngagementAnswers ==
  { <<>>,
    <<[productId |-> 102, avgTimeSeconds |-> 300, sessions |-> 2]>>,
    <<[productId |-> 103, avgTimeSeconds |-> 60, sessions |-> 3],
      [productId |-> 104, avgTimeSeconds |-> 400, sessions |-> 1]>>,
    <<[productId |-> 101, avgTimeSeconds |-> 150, sessions |-> 2],
      [productId |-> 104, avgTimeSeconds |-> 200, sessions |-> 5]>> }

Call(kind, shopId, subject, limit, userId) ==
  [kind |-> kind, shopId |-> shopId, subject |-> subject, limit |-> limit,
   userId |-> userId]

EngineCalls ==
  {Call("product", "shop", s, l, u) :
     s \in {<<NumId(101)>>, <<StrId(101)>>, <<NumId(UnknownId)>>},
     l \in Limits, u \in {Null, "u1"}}
  \cup {Call("cart", "shop", s, l, u) :
     s \in {<<NumId(102), NumId(103)>>, <<StrId(102), StrId(103)>>, <<NumId(UnknownId)>>},
     l \in Limits, u \in {Null, "u1"}}
  \cup {Call("product", "solo", <<NumId(n)>>, l, Null) : n \in {101, UnknownId}, l \in Limits}
  \cup {Call("cart", "solo", <<NumId(101)>>, l, Null) : l \in Limits}

\* ------------------------------------------------------------------------
\* One request at a time, every input: the engine
\* ------------------------------------------------------------------------
InitEngine ==
  /\ cache = <<>>
  /\ now = 0
  /\ store \in StoreStates
  /\ req = [r \in Procs |-> Idle]
  /\ track = NoTrack
  /\ returned = {}
  /\ pending = {}
  /\ watch = [r \in Procs |-> NoWatch]
  /\ faults = [r \in Procs |-> NoFaults]
  /\ lineage = NoLineage
  /\ used = NoneUsed

\* a call on a cold cache, or a repeat of the call the cache holds
BeginEngine ==
  \E call \in EngineCalls :
    /\ cache = <<>> \/ CacheHas(cache, KeyOf(call))
    /\ Begin(1, call)
    /\ faults' = [faults EXCEPT ![1] = NoFaults]
    /\ UNCHANGED <<track, returned, pending, watch, used, lineage>>

FetchEngine ==
  /\ \E pf \in BOOLEAN, cf \in BOOLEAN :
       /\ Fetch(1, pf, cf)
       /\ faults' = [faults EXCEPT ![1].profile = pf, ![1].cart = cf]
  /\ UNCHANGED <<track, returned, pending, watch, used, lineage>>

RemoteEngine ==
  /\ \E outcome \in ModelOutcomes : Remote(1, outcome)
  /\ UNCHANGED <<track, history>>

StallEngine ==
  /\ RemoteStalls(1)
  /\ UNCHANGED <<track, history>>

BoostEngine ==
  /\ \E rows \in EngagementAnswers, qf \in BOOLEAN :
       /\ Boost(1, rows, qf)
       /\ faults' = [faults EXCEPT ![1].engagement = qf]
  /\ UNCHANGED <<track, returned, pending, watch, used, lineage>>

NextEngine ==
  \/ BeginEngine
  \/ FetchEngine
  \/ RemoteEngine
  \/ StallEngine
  \/ BoostEngine

SpecEngine == InitEngine /\ [][NextEngine]_vars

TypeOKEngine == \A r \in Procs : req[r].pc \in {"idle", "fetch", "remote", "boost", "done"}

\* ------------------------------------------------------------------------
\* One request at a time on the wide shop: a catalog large enough for a
\* full ranking next to a history of several products
\* ------------------------------------------------------------------------
MaxWideLimit == 4

WideCalls ==
  {Call("product", "wide", <<NumId(201)>>, l, "u1") : l \in 1..MaxWideLimit}

WideBrowsing ==
  { <<>>,
    <<[productId |-> 202, totalTimeSeconds |-> 300],
      [productId |-> 203, totalTimeSeconds |-> 200]>>,
    <<[productId |-> 202, totalTimeSeconds |-> 300],
      [productId |-> 203, totalTimeSeconds |-> 200],
      [productId |-> 204, totalTimeSeconds |-> 100]>>,
    [i \in 1..6 |-> [productId |-> 201 + i, totalTimeSeconds |-> 10 * i]] }

WideCarted ==
  { <<>>,
    <<[productId |-> 205, count |-> 3], [productId |-> 202, count |-> 1]>> }

WideStores ==
  {[browsing |-> [u \in KnownUsers |-> b], carted |-> [u \in KnownUsers |-> c]] :
     b \in WideBrowsing, c \in WideCarted}

WideAnswer(ids) == RemoteOk([i \in 1..Len(ids) |-> [productId |-> ids[i], confidence |-> 8500]])

WideOutcomes ==
  {RemoteError, WideAnswer(<<>>), WideAnswer(<<205, 206, 207, 208>>),
   WideAnswer(<<208, 207, 206, 204>>), WideAnswer(<<203, 206>>),
   WideAnswer(<<206, 206, 206, 206>>)}

InitWide ==
  /\ cache = <<>>
  /\ now = 0
  /\ store \in WideStores
  /\ req = [r \in Procs |-> Idle]
  /\ track = NoTrack
  /\ returned = {}
  /\ pending = {}
  /\ watch = [r \in Procs |-> NoWatch]
  /\ faults = [r \in Procs |-> NoFaults]
  /\ lineage = NoLineage
  /\ used = NoneUsed

BeginWide ==
  \E call \in WideCalls :
    /\ cache = <<>> \/ CacheHas(cache, KeyOf(call))
    /\ Begin(1, call)
    /\ UNCHANGED <<track, history>>

FetchWide ==
  /\ Fetch(1, FALSE, FALSE)
  /\ UNCHANGED <<track, history>>

RemoteWide ==
  /\ \E outcome \in WideOutcomes : Remote(1, outcome)
  /\ UNCHANGED <<track, history>>

BoostWide ==
  /\ Boost(1, <<>>, FALSE)
  /\ UNCHANGED <<track, history>>

NextWide ==
  \/ BeginWide
  \/ FetchWide
  \/ RemoteWide
  \/ BoostWide

SpecWide == InitWide /\ [][NextWide]_vars

\* ------------------------------------------------------------------------
\* Overlapping requests, the clock, the time-tracking action: the system
\* ------------------------------------------------------------------------
MaxRequests == 3

MaxTicks == 1

MaxTracks == 1

\* the clock advances by the TTL, or by a millisecond more
TickSteps == {CACHE_TTL_MS, CACHE_TTL_MS + 1}

SystemCalls ==
  {Call("product", "shop", <<NumId(101)>>, l, "u1") : l \in {2, 3}}
  \cup {Call("cart", "shop", s, 2, Null) :
          s \in {<<NumId(102), NumId(103)>>, <<NumId(103), NumId(102)>>}}

SystemOutcomes ==
  {RemoteError, RemoteOk(<<[productId |-> 102, confidence |-> 8500]>>)}

SystemEngagement == {<<>>}

\* the tracked views: context, product or cart products, user, seconds
TrackedViews ==
  {[context |-> "product", productId |-> 101, cartProductIds |-> <<>>,
    userId |-> "u1", seconds |-> 60],
   [context |-> "product", productId |-> 101, cartProductIds |-> <<>>,
    userId |-> Null, seconds |-> 60],
   [context |-> "cart", productId |-> 0, cartProductIds |-> <<104>>,
    userId |-> "u1", seconds |-> 30],
   [context |-> "cart", productId |-> 0, cartProductIds |-> <<0 - 5, 104, 0>>,
    userId |-> "u1", seconds |-> 30]}

\* t lists the elements of s, in some order
IsPermutation(s, t) ==
  /\ Len(s) = Len(t)
  /\ \A x \in Range(s) \cup Range(t) :
       Cardinality({i \in 1..Len(s) : s[i] = x}) = Cardinality({i \in 1..Len(t) : t[i] = x})

\* two calls for the same shop, subject and user; a cart in any order
SameRequest(c, d) ==
  /\ c.kind = d.kind
  /\ c.shopId = d.shopId
  /\ c.userId = d.userId
  /\ IsPermutation(c.subject, d.subject)

\* the record of a call that has returned at time t; stored: the list is
\* the data of a cache entry, written at stamp
Completed(q, stored, stamp, t) ==
  [call |-> q.call, result |-> q.result, remoteCalls |-> q.remoteCalls, time |-> t,
   stored |-> stored, stamp |-> stamp, clean |-> TRUE,
   failed |-> q.outcome.status \in {"error", "malformed"}]

\* the entries under keys were written or removed by someone else
Spoil(records, keys) ==
  {IF KeyOf(p.call) \in keys THEN [p EXCEPT !.clean = FALSE] ELSE p : p \in records}

\* the key setCache evicts from c, if any
EvictedBy(c) == IF Len(c) > CACHE_MAX THEN {c[1].key} ELSE {}

\* the returned calls a request beginning now is compared with
PriorCalls(call) ==
  {p \in returned : SameRequest(p.call, call) /\ now - p.time < CACHE_TTL_MS}

PriorEntries(call) ==
  {p \in returned : /\ SameRequest(p.call, call)
                    /\ p.stored /\ p.clean
                    /\ now - p.stamp <= CACHE_TTL_MS}

Outcome(p) == [result |-> p.result, remoteCalls |-> p.remoteCalls]

\* the seconds the rows of a user's browsing history hold for a product
SecondsOf(rows, productId) ==
  LET hits == {i \in 1..Len(rows) : rows[i].productId = productId}
  IN IF hits = {} THEN 0 ELSE rows[CHOOSE i \in hits : TRUE].totalTimeSeconds

\* the seconds the store holds now for the user and product of a product call
Seen(call) ==
  IF call.kind = "product" /\ call.userId \in KnownUsers
  THEN SecondsOf(store.browsing[call.userId], call.subject[1].n)
  ELSE 0

\* the most seconds a completed run of the invalidation hook covered for key
Owed(key) ==
  LET covered == {h.seconds : h \in {g \in lineage.hooked : g.key = key}}
  IN IF covered = {} THEN 0 ELSE CHOOSE s \in covered : \A t \in covered : t <= s

\* the seconds the history read behind the entry under key saw
Origin(key) ==
  LET writers == {o \in lineage.origin : o.key = key}
  IN IF writers = {} THEN 0 ELSE (CHOOSE o \in writers : TRUE).basis

\* a new request takes the first free slot
FreeSlot(r) ==
  /\ req[r].pc \in {"idle", "done"}
  /\ \A q \in Procs : q < r => req[q].pc \notin {"idle", "done"}

BeginRequest(r) ==
  \E call \in SystemCalls :
    /\ FreeSlot(r)
    /\ used.requests < MaxRequests
    /\ Begin(r, call)
    /\ watch' = [watch EXCEPT ![r] =
                   [prior     |-> {Outcome(p) : p \in PriorCalls(call)},
                    entry     |-> {Outcome(p) : p \in PriorEntries(call)},
                    afterHook |-> KeyOf(call) \in pending,
                    owed      |-> Owed(KeyOf(call)),
                    basis     |-> IF req'[r].path = "hit" THEN Origin(KeyOf(call)) ELSE 0]]
    /\ pending' = pending \ {KeyOf(call)}
    /\ returned' = IF req'[r].pc = "done"
                   THEN returned \cup
                        {Completed(req'[r], TRUE, CacheEntry(cache, KeyOf(call)).timestamp, now)}
                   ELSE returned
    /\ used' = [used EXCEPT !.requests = @ + 1]
    /\ UNCHANGED <<track, faults, lineage>>

\* the side queries of the system answer (their failures are the engine's
\* part); the read is taken of the store as it is now
FetchRequest(r) ==
  /\ Fetch(r, FALSE, FALSE)
  /\ returned' = IF req'[r].pc = "done"
                 THEN returned \cup {Completed(req'[r], FALSE, 0, now)}
                 ELSE returned
  /\ watch' = [watch EXCEPT ![r].basis = Seen(req[r].call)]
  /\ UNCHANGED <<track, pending, used, faults, lineage>>

RemoteRequest(r) ==
  /\ \E outcome \in SystemOutcomes : Remote(r, outcome)
  /\ UNCHANGED <<track, history>>

BoostRequest(r) ==
  /\ \E rows \in SystemEngagement : Boost(r, rows, FALSE)
  /\ returned' = Spoil(returned, {KeyOf(req[r].call)} \cup EvictedBy(cache))
                 \cup {Completed(req'[r], TRUE, now, now)}
  /\ lineage' = [lineage EXCEPT !.origin =
                   {o \in @ : o.key # KeyOf(req[r].call)}
                   \cup {[key |-> KeyOf(req[r].call), basis |-> watch[r].basis]}]
  /\ UNCHANGED <<track, pending, watch, used, faults>>

Tick ==
  \E d \in TickSteps :
    /\ used.ticks < MaxTicks
    /\ now' = now + d
    /\ used' = [used EXCEPT !.ticks = @ + 1]
    /\ UNCHANGED <<cache, store, req, track, returned, pending, watch, faults, lineage>>

\* product_time_events, grouped by product, after insertOne of one more
\* event: its seconds join the product's total, a new product comes last
RecordTime(rows, productId, seconds) ==
  IF \E i \in 1..Len(rows) : rows[i].productId = productId
  THEN [i \in 1..Len(rows) |->
          IF rows[i].productId = productId
          THEN [rows[i] EXCEPT !.totalTimeSeconds = @ + seconds]
          ELSE rows[i]]
  ELSE Append(rows, [productId |-> productId, totalTimeSeconds |-> seconds])

\* cart_time_events, unwound and grouped by product, after insertOne of one
\* more event: the action keeps the ids that are finite numbers above 0
\* (an id that is no number is 0 here), and every occurrence of a kept id
\* counts once
RECURSIVE RecordCart(_, _)
RecordCart(rows, cartProductIds) ==
  IF cartProductIds = <<>> THEN rows
  ELSE LET id == Head(cartProductIds)
           counted == IF ~(id > 0) THEN rows
                      ELSE IF \E i \in 1..Len(rows) : rows[i].productId = id
                      THEN [i \in 1..Len(rows) |->
                              IF rows[i].productId = id
                              THEN [rows[i] EXCEPT !.count = @ + 1]
                              ELSE rows[i]]
                      ELSE Append(rows, [productId |-> id, count |-> 1])
       IN RecordCart(counted, Tail(cartProductIds))

\* time tracking, up to the await of insertOne: the event is in the store.
\* A cart view ends there; a product view goes on to the invalidation
TrackInsert ==
  \E v \in TrackedViews :
    /\ track.pc = "idle"
    /\ used.tracks < MaxTracks
    /\ store' = IF v.userId \notin KnownUsers THEN store
                ELSE IF v.context = "cart"
                THEN [store EXCEPT !.carted[v.userId] = RecordCart(@, v.cartProductIds)]
                ELSE [store EXCEPT !.browsing[v.userId] = RecordTime(@, v.productId, v.seconds)]
    /\ track' = IF v.context = "cart" THEN NoTrack
                ELSE [pc |-> "saved", shopId |-> "shop", productId |-> v.productId,
                      userId |-> v.userId]
    /\ used' = [used EXCEPT !.tracks = @ + 1]
    /\ UNCHANGED <<cache, now, req, returned, pending, watch, faults, lineage>>

\* time tracking, after the await: if (userId) clearUserProductCache(...)
TrackHook ==
  /\ track.pc = "saved"
  /\ LET key == ProductCacheKey(track.shopId, NumId(track.productId), track.userId)
     IN IF track.userId # Null
        THEN /\ cache' = clearUserProductCache(cache, track.shopId, NumId(track.productId),
                                               track.userId)
             /\ pending' = pending \cup {key}
             /\ returned' = {p \in returned : KeyOf(p.call) # key}
             /\ lineage' = [lineage EXCEPT !.hooked =
                              @ \cup {[key |-> key,
                                       seconds |-> SecondsOf(store.browsing[track.userId],
                                                             track.productId)]}]
        ELSE UNCHANGED <<cache, pending, returned, lineage>>
  /\ track' = NoTrack
  /\ UNCHANGED <<now, store, req, watch, used, faults>>

\* the request that filled the cold cache first, and the list it computed
\* when the remote call failed
FirstCall == Call("product", "shop", <<NumId(101)>>, 2, "u1")

FirstList ==
  applyEngagementBoosts(
    mergeHistoryWithRecommendations(Recommend(FirstCall, <<>>, RemoteError),
                                    HistoryCandidates(FirstCall, <<>>, <<>>),
                                    FirstCall.limit),
    getEngagementBoosts({}, <<>>, FALSE))

\* the entries that CACHE_MAX requests for the products of another shop
\* stored after it
OtherEntries ==
  [i \in 1..CACHE_MAX |->
     [key       |-> ProductCacheKey("other", NumId(i), Null),
      data      |-> <<Rec(i + 1, "Similar product you might like", 5000, "similar",
                          "", 0)>>,
      timestamp |-> 0]]

\* the process has just started
ColdStart ==
  /\ cache = <<>>
  /\ returned = {}
  /\ used = NoneUsed
  /\ lineage = NoLineage

\* the process has served FirstCall and the other shop's requests: the cache
\* is at its cap, FirstCall's entry the oldest
FullStart ==
  /\ cache = <<[key |-> KeyOf(FirstCall), data |-> FirstList, timestamp |-> 0]>>
             \o OtherEntries
  /\ returned = {Completed([call |-> FirstCall, result |-> FirstList, remoteCalls |-> 1,
                            outcome |-> RemoteError],
                           TRUE, 0, 0)}
  /\ used = [NoneUsed EXCEPT !.requests = 1]
  /\ lineage = [NoLineage EXCEPT !.origin = {[key |-> KeyOf(FirstCall), basis |-> 0]}]

Init ==
  /\ now = 0
  /\ store = [browsing |-> [u \in KnownUsers |-> <<>>], carted |-> [u \in KnownUsers |-> <<>>]]
  /\ req = [r \in Procs |-> Idle]
  /\ track = NoTrack
  /\ pending = {}
  /\ watch = [r \in Procs |-> NoWatch]
  /\ faults = [r \in Procs |-> NoFaults]
  /\ ColdStart \/ FullStart

Next ==
  \/ \E r \in Procs : BeginRequest(r)
  \/ \E r \in Procs : FetchRequest(r)
  \/ \E r \in Procs : RemoteRequest(r)
  \/ \E r \in Procs : BoostRequest(r)
  \/ Tick
  \/ TrackInsert
  \/ TrackHook

Spec == Init /\ [][Next]_vars

\* ------------------------------------------------------------------------
\* Properties
\* ------------------------------------------------------------------------
NoDup(recs) ==
  \A i \in 1..Len(recs), j \in 1..Len(recs) : i # j => recs[i].productId # recs[j].productId

Returned(r) == req[r].pc = "done"

Computed(r) == req[r].pc = "done" /\ req[r].path = "computed"

\* C1: a product request with limit N >= 1 on a shop with at least N other
\* products returns exactly N entries, whatever the remote model does.
C1_CountContract ==
  \A r \in Procs :
    (/\ Returned(r)
     /\ req[r].call.kind = "product"
     /\ req[r].call.limit >= 1
     /\ Len(OtherProducts(req[r].call)) >= req[r].call.limit)
    => Len(req[r].result) = req[r].call.limit

\* C2: no returned list holds a productId more than once, on any path.
C2_NoDuplicates == \A r \in Procs : Returned(r) => NoDup(req[r].result)

\* the model named a product twice and the returned list holds it once
C2_Witness ==
  \E r \in Procs :
    /\ Computed(r)
    /\ req[r].outcome.status = "ok"
    /\ ~NoDup(req[r].recommendations)
    /\ Len(req[r].result) >= 1
    /\ NoDup(req[r].result)

\* C3: no returned list contains the viewed product or a product of the
\* cart the request was made for.
C3_SubjectExcluded ==
  \A r \in Procs :
    Returned(r) => RecIds(req[r].result) \cap StringSet(req[r].call.subject) = {}

\* C4 as claimed: when the remote call fails, the list a product request
\* returns is the fallback ranking of the other products.
C4_FallbackEqualsReturned ==
  \A r \in Procs :
    (Computed(r) /\ req[r].call.kind = "product" /\ req[r].outcome.status = "error")
    => req[r].result = fallbackRecommendations(req[r].call.shopId, req[r].call.subject[1],
                                               req[r].call.limit)

CatalogPos(shopId, n) ==
  CHOOSE i \in 1..Len(Catalogs[shopId]) : Catalogs[shopId][i].productId = n

\* list is the similarity ranking of the other products of the shop: the
\* first min(limit, others) of them by score descending, equal scores in
\* catalog order, each with confidence score/100
IsSimilarityRanking(call, list) ==
  LET subject == getProductById(call.shopId, call.subject[1])[1]
      others  == OtherProducts(call)
      score(n) == calculateSimilarity(subject,
                    CHOOSE p \in Range(others) : p.productId = n)
      before(m, n) == \/ score(m) > score(n)
                      \/ /\ score(m) = score(n)
                         /\ CatalogPos(call.shopId, m) < CatalogPos(call.shopId, n)
  IN /\ Len(list) = Min(call.limit, Len(others))
     /\ RecIds(list) \subseteq ProductIds(others)
     /\ \A i \in 1..Len(list), j \in 1..Len(list) :
          i < j => before(list[i].productId, list[j].productId)
     /\ \A i \in 1..Len(list) : \A n \in ProductIds(others) \ RecIds(list) :
          before(list[i].productId, n)
     /\ \A i \in 1..Len(list) : list[i].confidence = score(list[i].productId) * 100

\* the scenario of the spec: recommendForProduct(shop, 101, 2), no user
FixtureCall == Call("product", "shop", <<NumId(101)>>, 2, Null)

\* C4 amended: when the remote call fails, no history candidate exists and
\* no engagement bonus applies, the list a product request computes is the
\* fallback similarity ranking; for the fixture it is [102, 103].
C4_FallbackWithoutPersonalization ==
  \A r \in Procs :
    (/\ Computed(r)
     /\ req[r].call.kind = "product"
     /\ req[r].outcome.status = "error"
     /\ HistoryCandidates(req[r].call, req[r].userProfile, req[r].cartHistory).all = <<>>
     /\ DOMAIN req[r].boostMap = {})
    => /\ IsSimilarityRanking(req[r].call, req[r].result)
       /\ req[r].call = FixtureCall
            => [i \in 1..Len(req[r].result) |-> req[r].result[i].productId] = <<102, 103>>

C4_Witness ==
  \E r \in Procs :
    /\ Computed(r)
    /\ req[r].call = FixtureCall
    /\ req[r].outcome.status = "error"
    /\ DOMAIN req[r].boostMap = {}
    /\ Len(req[r].result) = 2
    /\ req[r].result[1].productId = 102
    /\ req[r].result[2].productId = 103

\* C5: with limit >= 1 a request returns an empty list only when the shop
\* has no product other than the subject(s), whatever failed.
C5_EmptyOnlyWithoutCandidates ==
  \A r \in Procs :
    (Returned(r) /\ req[r].call.limit >= 1 /\ req[r].result = <<>>)
    => Len(OtherProducts(req[r].call)) = 0

\* the remote call failed, the browsing-history query failed (the store
\* holds a history the request did not get), and a list came back
C5_Witness ==
  \E r \in Procs :
    /\ Computed(r)
    /\ req[r].outcome.status \in {"error", "malformed"}
    /\ req[r].call.userId \in KnownUsers
    /\ store.browsing[req[r].call.userId] # <<>>
    /\ req[r].userProfile = <<>>
    /\ Len(req[r].result) >= 1

\* the reference tokens of a request: of the viewed product's title, or of
\* all cart titles
SubjectTokens(call) ==
  IF call.kind = "product"
  THEN TitleTokens[SubjectProducts(call)[1].title]
  ELSE Dedup(FlatTokens(SubjectProducts(call)))

\* the candidates whose title shares a token with the subject
SameTypeIds(call) ==
  {p.productId : p \in {q \in Range(OtherProducts(call)) :
                          TypeScore(SubjectTokens(call), q.title) > 0}}

\* the request holds a ranking & padding result built from a parsed answer
Ranked(r) ==
  /\ req[r].pc \in {"boost", "done"}
  /\ req[r].outcome.status = "ok"

\* C9 as claimed: without a profile the ranking & padding result holds a
\* candidate that is not same-type only if it holds every same-type one.
C9_TypeFilterStrict ==
  \A r \in Procs :
    (Ranked(r) /\ req[r].userProfile = <<>>)
    => \/ RecIds(req[r].recommendations) \subseteq SameTypeIds(req[r].call)
       \/ SameTypeIds(req[r].call) \subseteq RecIds(req[r].recommendations)

ModelNamed(outcome) == {outcome.entries[i].productId : i \in 1..Len(outcome.entries)}

\* number of entries of the answer that name a same-type candidate
SameTypeEntries(call, outcome) ==
  Len(SelectSeq(outcome.entries, LAMBDA e : e.productId \in SameTypeIds(call)))

\* C9 amended: without a browsing profile, a candidate that is not
\* same-type is in the ranking & padding result only if the model named it
\* or every same-type candidate is in the result; and when the model named
\* at least limit same-type entries, the result is same-type only.
C9_TypeFilter ==
  \A r \in Procs :
    (Ranked(r) /\ req[r].userProfile = <<>>)
    => /\ \A n \in RecIds(req[r].recommendations) \ SameTypeIds(req[r].call) :
            \/ n \in ModelNamed(req[r].outcome)
            \/ SameTypeIds(req[r].call) \subseteq RecIds(req[r].recommendations)
       /\ SameTypeEntries(req[r].call, req[r].outcome) >= req[r].call.limit
            => RecIds(req[r].recommendations) \subseteq SameTypeIds(req[r].call)

\* "Gold Bracelet", no profile, the model named the necklace: the bracelet
\* 102 is padded in before the wallet, which the model did not name
C9_Witness ==
  \E r \in Procs :
    /\ Ranked(r)
    /\ req[r].call.kind = "product"
    /\ req[r].userProfile = <<>>
    /\ req[r].call.limit = 3
    /\ ModelNamed(req[r].outcome) = {103}
    /\ RecIds(req[r].recommendations) = {102, 103, 104}
    /\ req[r].recommendations[2].productId = 102

\* C10: the engagement booster never lowers the confidence of an entry of
\* the merged list.
C10_BoostMonotone ==
  \A r \in Procs :
    Computed(r)
    => \A i \in 1..Len(req[r].merged), j \in 1..Len(req[r].result) :
         req[r].merged[i].productId = req[r].result[j].productId
         => req[r].result[j].confidence >= req[r].merged[i].confidence

\* C6 as claimed: of two calls for the same shop, product and user, the
\* second begun after the first returned, within the TTL and with no
\* invalidation in between, at most one invokes the remote call and the
\* second returns the list the first returned.
C6_CacheHit ==
  \A r \in Procs :
    (Returned(r) /\ req[r].call.kind = "product")
    => \A p \in watch[r].prior :
         /\ p.remoteCalls + req[r].remoteCalls <= 1
         /\ req[r].result = p.result

\* C6 amended: when the first call stored its list in the cache or was
\* served from it, and the second begins no more than the TTL after that
\* entry was written, with no invalidation, no eviction and no other request
\* storing under the key in between, the second is a cache hit: it does not
\* invoke the remote call and returns the list the first returned.
C6_CacheHitUndisturbed ==
  \A r \in Procs :
    (req[r].pc # "idle" /\ req[r].call.kind = "product")
    => \A p \in watch[r].entry :
         /\ Returned(r)
         /\ req[r].path = "hit"
         /\ req[r].remoteCalls = 0
         /\ req[r].result = p.result

\* on a cache that was cold, a product call computed its list with one
\* remote call; the same call, begun when the entry is exactly as old as the
\* TTL, returned that list
C6_Witness ==
  \E r \in Procs :
    /\ Returned(r)
    /\ req[r].call.kind = "product"
    /\ req[r].path = "hit"
    /\ now = CACHE_TTL_MS
    /\ Len(cache) = 1
    /\ cache[1].timestamp = 0
    /\ \E p \in watch[r].entry :
         /\ p.remoteCalls = 1
         /\ Len(p.result) >= 2
         /\ p.result = req[r].result

\* C7: the first product call for a key begun after the invalidation hook
\* ran for that key is not served from the cache.
C7_NextCallMisses ==
  \A r \in Procs :
    (req[r].pc # "idle" /\ req[r].call.kind = "product" /\ watch[r].afterHook)
    => ~(Returned(r) /\ req[r].path = "hit")

\* the orders a list of ids can be passed in
Orderings(ids) == {t \in [1..Len(ids) -> Range(ids)] : IsPermutation(ids, t)}

\* C8: a cart request builds the same cache key for every order of its
\* ids, and a cart request begun while the entry that a request for the
\* same ids in any order stored is in the cache returns that entry's list.
C8_CartKeyOrderIndependent ==
  \A r \in Procs :
    (req[r].pc # "idle" /\ req[r].call.kind = "cart")
    => /\ \A t \in Orderings(req[r].call.subject) :
            KeyOf([req[r].call EXCEPT !.subject = t]) = KeyOf(req[r].call)
       /\ \A p \in watch[r].entry :
            /\ Returned(r)
            /\ req[r].path = "hit"
            /\ req[r].result = p.result

\* a cart request computed its list; a request for the same ids in the
\* other order was served that list from the cache
C8_Witness ==
  \E r \in Procs :
    /\ Returned(r)
    /\ req[r].call.kind = "cart"
    /\ req[r].path = "hit"
    /\ Len(req[r].result) >= 1
    /\ \E p \in returned :
         /\ p.call.kind = "cart"
         /\ p.call.subject # req[r].call.subject
         /\ IsPermutation(p.call.subject, req[r].call.subject)
         /\ p.remoteCalls = 1
         /\ p.stored
         /\ Outcome(p) \in watch[r].entry
         /\ p.result = req[r].result

\* a recommendation without the two fields the booster may write
Unboosted(rec) == [rec EXCEPT !.confidence = 0, !.engagementBoost = 0]

\* C11: the list the engagement booster returns holds the entries of the
\* merged list, each once for each time it was there, changed in nothing but
\* confidence and engagementBoost; only the order may differ.
C11_BoostFrame ==
  \A r \in Procs :
    Computed(r)
    => IsPermutation([i \in 1..Len(req[r].merged) |-> Unboosted(req[r].merged[i])],
                     [i \in 1..Len(req[r].result) |-> Unboosted(req[r].result[i])])

\* a bonus moved an entry of the merged list ahead of another one
C11_Witness ==
  \E r \in Procs :
    /\ Computed(r)
    /\ DOMAIN req[r].boostMap # {}
    /\ Len(req[r].merged) >= 2
    /\ req[r].result[1].engagementBoost > 0
    /\ req[r].result[1].productId # req[r].merged[1].productId

\* the request ended by raising to its caller; no step of
\* findUpsellProducts or findCartUpsellProducts ends so, the outer catch
\* of each returns a fallback list
Raised(r) == req[r].pc = "done" /\ req[r].path = "raised"

\* C12: a cart request raises to its caller exactly when none of the cart
\* ids resolves to a product of the catalog; otherwise it returns a list.
C12_CartRaisesIffUnresolved ==
  \A r \in Procs :
    (req[r].pc = "done" /\ req[r].call.kind = "cart")
    => (Raised(r) <=> ValidCartProducts(req[r].call) = <<>>)

\* the viewed product is not in the shop's catalog, under any spelling of
\* its id
SubjectAbsent(call) ==
  call.subject[1].n \notin ProductIds(getProductsByShop(call.shopId))

\* C13: a product request for a product that is not in the catalog does
\* not raise and does not invoke the remote call; it returns the first
\* min(limit, number of shop products) catalog products, each with
\* confidence 0.5 and the reason "You might also like this product".
C13_ProductLastResort ==
  \A r \in Procs :
    (req[r].pc = "done" /\ req[r].call.kind = "product" /\ SubjectAbsent(req[r].call))
    => LET catalog == getProductsByShop(req[r].call.shopId)
           result  == req[r].result
       IN /\ ~Raised(r)
          /\ req[r].remoteCalls = 0
          /\ Len(result) = Min(req[r].call.limit, Len(catalog))
          /\ \A i \in 1..Len(result) :
               /\ result[i].productId = catalog[i].productId
               /\ result[i].confidence = 5000
               /\ result[i].aiReason = "You might also like this product"

\* limit 3 for a product unknown to a shop of four products, and to a shop
\* of one: three entries, one entry
C13_Witness ==
  \E r \in Procs :
    /\ req[r].pc = "done"
    /\ req[r].call.kind = "product"
    /\ SubjectAbsent(req[r].call)
    /\ req[r].call.limit = 3
    /\ \/ req[r].call.shopId = "shop" /\ Len(req[r].result) = 3
       \/ req[r].call.shopId = "solo" /\ Len(req[r].result) = 1

\* what the history store holds for the caller of the call
StoredBrowsing(call) ==
  IF call.userId \in KnownUsers THEN store.browsing[call.userId] ELSE <<>>

StoredCarted(call) ==
  IF call.userId \in KnownUsers THEN store.carted[call.userId] ELSE <<>>

\* the merged list of the request had the failed queries found nothing
MergedWithout(r) ==
  LET call == req[r].call
      userProfile == IF faults[r].profile THEN <<>>
                     ELSE getUserInterestProfile(call.userId, StoredBrowsing(call), FALSE)
      rawCartHistory == IF faults[r].cart THEN <<>>
                        ELSE getUserCartHistory(call.userId, StoredCarted(call), FALSE)
      cartHistory == EnrichCartHistory(rawCartHistory, getProductsByShop(call.shopId),
                       IF call.kind = "cart" THEN StringSet(call.subject) ELSE {})
  IN mergeHistoryWithRecommendations(Recommend(call, userProfile, req[r].outcome),
                                     HistoryCandidates(call, userProfile, cartHistory),
                                     call.limit)

\* C14: a failed browsing-history, cart-history or engagement query never
\* aborts the request: it returns the list of an empty browsing profile, of
\* an empty cart history, and, for the engagement query, the merged list
\* itself, same items, order and confidences
C14_BestEffortPersonalization ==
  \A r \in Procs :
    /\ req[r].pc = "done" => ~Raised(r)
    /\ Computed(r)
       => /\ req[r].merged = MergedWithout(r)
          /\ faults[r].engagement => req[r].result = req[r].merged
          /\ ~faults[r].engagement
             => req[r].result = applyEngagementBoosts(req[r].merged, req[r].boostMap)

\* all three queries failed for a user with both histories, and a list of
\* limit entries came back
C14_Witness ==
  \E r \in Procs :
    /\ Computed(r)
    /\ faults[r].profile /\ faults[r].cart /\ faults[r].engagement
    /\ StoredBrowsing(req[r].call) # <<>>
    /\ StoredCarted(req[r].call) # <<>>
    /\ Len(req[r].result) = req[r].call.limit
    /\ req[r].call.limit = MaxLimit

\* the next step of the request in slot r, whatever its inputs
RequestStep(r) ==
  \/ \E pf \in BOOLEAN, cf \in BOOLEAN : Fetch(r, pf, cf)
  \/ \E outcome \in ModelOutcomes : Remote(r, outcome)
  \/ \E rows \in EngagementAnswers, qf \in BOOLEAN : Boost(r, rows, qf)

Hung(r) == req[r].pc = "remote" /\ req[r].outcome = RemoteSilent

\* C15: no request is left waiting on the remote call: a request whose
\* remote call has gone silent can still take a step, the fallback of a
\* failed remote call, and so returns a list
C15_NoHungState ==
  \A r \in Procs :
    Hung(r) => ENABLED (RequestStep(r) /\ UNCHANGED <<track, history>>)

C15_HungReached == \E r \in Procs : Hung(r)

\* C16: a cart request on a shop with only k < limit products outside the
\* cart returns exactly those k products, each once, whatever the remote
\* call produced
C16_CartShortfall ==
  \A r \in Procs :
    (/\ Returned(r)
     /\ req[r].call.kind = "cart"
     /\ Len(OtherProducts(req[r].call)) < req[r].call.limit)
    => /\ Len(req[r].result) = Len(OtherProducts(req[r].call))
       /\ NoDup(req[r].result)
       /\ RecIds(req[r].result) = ProductIds(OtherProducts(req[r].call))

\* C17: a product call begun after the invalidation hook ran for its key
\* returns a list that rests on a history read taken after the data the
\* hook ran for was recorded, also when a request begun before that data
\* stored its list after the hook
C17_FreshAfterInvalidation ==
  \A r \in Procs :
    (Returned(r) /\ req[r].call.kind = "product")
    => watch[r].basis >= watch[r].owed

\* a product call begun after the hook returned a list resting on a read
\* that saw the new data
C17_FreshReached ==
  \E r \in Procs :
    /\ Returned(r)
    /\ req[r].call.kind = "product"
    /\ req[r].path = "computed"
    /\ watch[r].owed > 0
    /\ watch[r].basis >= watch[r].owed

\* C18: a product call returns at most its own limit entries, and exactly
\* min(limit, number of other products), also when it is served the entry
\* an earlier call with another limit stored
C18_LimitAcrossCalls ==
  \A r \in Procs :
    (Returned(r) /\ req[r].call.kind = "product")
    => /\ Len(req[r].result) <= req[r].call.limit
       /\ Len(req[r].result) = Min(req[r].call.limit, Len(OtherProducts(req[r].call)))

\* a product call served the entry a call with another limit stored
C18_OtherLimitServed ==
  \E r \in Procs :
    /\ Returned(r)
    /\ req[r].call.kind = "product"
    /\ req[r].path = "hit"
    /\ Len(cache) = 1
    /\ Len(req[r].result) > req[r].call.limit
    /\ \E p \in returned : /\ SameRequest(p.call, req[r].call)
                           /\ p.stored
                           /\ p.call.limit # req[r].call.limit
                           /\ p.result = req[r].result

\* the padding tier an entry of a ranking & padding result came from: the
\* model's answer, the same-type candidates, any candidate
Tier(rec) ==
  IF rec.aiReason = ModelReason THEN 1
  ELSE IF rec.aiReason = "You might also like" THEN 3
  ELSE 2

TierIds(recs, t) == {recs[i].productId : i \in {j \in 1..Len(recs) : Tier(recs[j]) = t}}

\* C19: in a ranking & padding result the entries of the model's answer
\* come first, then same-type candidates at confidence 0.65, then any
\* candidate at 0.5 with the reason "You might also like"; a tier adds
\* entries only when the tiers before it are used up and left the list
\* short of limit; the list has at most limit entries
C19_PaddingTierOrder ==
  \A r \in Procs :
    Ranked(r)
    => LET recs   == req[r].recommendations
           call   == req[r].call
           parsed == ModelNamed(req[r].outcome) \cap ProductIds(OtherProducts(call))
       IN /\ Len(recs) <= call.limit
          /\ \A i \in 1..Len(recs), j \in 1..Len(recs) :
               i < j => Tier(recs[i]) <= Tier(recs[j])
          /\ TierIds(recs, 1) \subseteq parsed
          /\ \A i \in 1..Len(recs) :
               /\ Tier(recs[i]) = 2
                  => /\ recs[i].confidence = 6500
                     /\ recs[i].productId \in SameTypeIds(call) \ parsed
                     /\ recs[i].aiReason = IF call.kind = "product"
                                           THEN "Similar product you might like"
                                           ELSE "Related to your cart items"
               /\ Tier(recs[i]) = 3
                  => /\ recs[i].confidence = 5000
                     /\ recs[i].productId \notin SameTypeIds(call) \cup parsed
          /\ TierIds(recs, 2) \cup TierIds(recs, 3) # {}
             => /\ parsed = TierIds(recs, 1)
                /\ Cardinality({i \in 1..Len(recs) : Tier(recs[i]) = 1}) < call.limit
          /\ TierIds(recs, 3) # {}
             => SameTypeIds(call) \subseteq RecIds(recs)

\* limit 3 with the necklace named by the model: the model's entry, then the
\* same-type bracelet, then the wallet
C19_Witness ==
  \E r \in Procs :
    /\ Ranked(r)
    /\ req[r].call.kind = "product"
    /\ Len(req[r].recommendations) = 3
    /\ Tier(req[r].recommendations[1]) = 1
    /\ Tier(req[r].recommendations[2]) = 2
    /\ Tier(req[r].recommendations[3]) = 3

\* the entries the parser resolved from the answer of the request, in the
\* model's order
Parsed(r) == parseGroqRecommendations(req[r].outcome.entries, OtherProducts(req[r].call))

\* C20: for a user with a profile, a browsing-history entry or a
\* cart-history entry, the ranking & padding result begins with the parsed
\* entries of the model in the model's own order, cut to limit: no
\* same-type filter is applied, for a product and for a cart
C20_FilterSkippedWithProfile ==
  \A r \in Procs :
    (Ranked(r) /\ (req[r].userProfile # <<>> \/ req[r].cartHistory # <<>>))
    => Take(req[r].recommendations, Min(req[r].call.limit, Len(Parsed(r))))
         = Take(Parsed(r), req[r].call.limit)

\* a user with a browsing history: the wallet the model put first stays
\* first, before the bracelet
C20_BrowsingProfileUnfiltered ==
  \E r \in Procs :
    /\ Ranked(r)
    /\ req[r].call.kind = "product"
    /\ req[r].userProfile # <<>>
    /\ Len(Parsed(r)) = 2
    /\ Parsed(r)[1].productId = 104
    /\ Parsed(r)[2].productId = 102
    /\ req[r].call.limit = 2
    /\ req[r].recommendations = Parsed(r)

\* C21: when the remote call succeeds and its answer resolves to no
\* candidate (an empty array, or ids that are not candidates), the list
\* handed to the history merge is the fallback ranking, as after a failed
\* remote call, not a list of padding entries
C21_FallbackOnZeroUsable ==
  \A r \in Procs :
    (Ranked(r) /\ Parsed(r) = <<>>)
    => req[r].recommendations = Fallback(req[r].call)

\* the answer named only an id that is no candidate, and the list handed on
\* is made of padding entries
C21_PaddedInstead ==
  \E r \in Procs :
    /\ Ranked(r)
    /\ req[r].outcome.entries # <<>>
    /\ Parsed(r) = <<>>
    /\ Len(req[r].recommendations) = req[r].call.limit
    /\ \A i \in 1..Len(req[r].recommendations) : Tier(req[r].recommendations[i]) >= 2

\* the request holds a merged list
HasMerged(r) == req[r].pc = "boost" \/ Computed(r)

\* the history candidates of the request, from what it read
CandidatesOf(r) == HistoryCandidates(req[r].call, req[r].userProfile, req[r].cartHistory)

\* C22: the merged list never exceeds limit; it begins with the top
\* browsing-history candidate when there is one, and, with limit >= 2, the
\* top cart-history candidate follows it at once (or is that same product):
\* both stand before all other history entries and all ranking entries
C22_GuaranteedHistorySlots ==
  \A r \in Procs :
    HasMerged(r)
    => LET h      == CandidatesOf(r)
           merged == req[r].merged
           limit  == req[r].call.limit
       IN /\ Len(merged) <= limit
          /\ (h.time # <<>> /\ limit >= 1)
             => /\ Len(merged) >= 1
                /\ merged[1] = h.time[1]
          /\ (h.time # <<>> /\ h.cart # <<>> /\ limit >= 2)
             => \/ h.cart[1].productId = h.time[1].productId
                \/ /\ Len(merged) >= 2
                   /\ merged[2] = h.cart[1]

\* both histories have a candidate, two different products, and ranking
\* entries follow them
C22_Witness ==
  \E r \in Procs :
    /\ HasMerged(r)
    /\ req[r].call.limit = 3
    /\ CandidatesOf(r).time # <<>>
    /\ CandidatesOf(r).cart # <<>>
    /\ Len(req[r].merged) = 3
    /\ req[r].merged[1].historySource = "time"
    /\ req[r].merged[2].historySource = "cart"
    /\ req[r].merged[3].historySource = ""
    /\ req[r].outcome.status = "ok"

HistoryEntries(recs) == SelectSeq(recs, LAMBDA rec : rec.historySource # "")

RankingEntries(recs) == SelectSeq(recs, LAMBDA rec : rec.historySource = "")

\* the guaranteed slots the merge takes: the top browsing candidate, the
\* top cart candidate, one slot if they are one product, never above limit
GuaranteedSlots(r) ==
  LET h == CandidatesOf(r)
      tops == (IF h.time # <<>> THEN {h.time[1].productId} ELSE {})
              \cup (IF h.cart # <<>> THEN {h.cart[1].productId} ELSE {})
  IN Min(req[r].call.limit, Cardinality(tops))

\* the ranking & padding output holds limit products, all different, none
\* a history candidate
FullRanking(r) ==
  Cardinality(RecIds(req[r].recommendations) \ RecIds(CandidatesOf(r).all))
    >= req[r].call.limit

\* C23: when the ranking & padding output holds at least limit distinct
\* products that are no history candidates, the merged list holds at most
\* max(g, floor(limit / 2)) history entries, g the guaranteed slots taken;
\* the other slots hold the first entries of the ranking & padding output
\* and no leftover history entry follows them.  Whatever the output, a
\* history entry stands behind a ranking entry only if every product of the
\* output is in the merged list
C23_HistoryQuota ==
  \A r \in Procs :
    HasMerged(r)
    => LET merged == req[r].merged
           limit  == req[r].call.limit
           hist   == HistoryEntries(merged)
       IN /\ FullRanking(r)
             => /\ Len(hist) <= Max(GuaranteedSlots(r), limit \div 2)
                /\ merged = hist \o Take(req[r].recommendations, limit - Len(hist))
          /\ (\E i \in 1..Len(merged), j \in 1..Len(merged) :
                /\ i < j
                /\ merged[i].historySource = ""
                /\ merged[j].historySource # "")
             => RecIds(req[r].recommendations) \subseteq RecIds(merged)

\* limit 4, three browsing candidates and a full ranking: one guaranteed
\* slot, one more history entry up to the half, the third candidate left out
C23_Witness ==
  \E r \in Procs :
    /\ HasMerged(r)
    /\ FullRanking(r)
    /\ req[r].call.limit = 4
    /\ GuaranteedSlots(r) = 1
    /\ Len(CandidatesOf(r).all) = 3
    /\ Len(HistoryEntries(req[r].merged)) = 2
    /\ Len(RankingEntries(req[r].merged)) = 2

SortedByConfidence(recs) ==
  \A i \in 1..Len(recs), j \in 1..Len(recs) :
    i < j => ConfOr(recs[i].confidence, 0) >= ConfOr(recs[j].confidence, 0)

\* C24: the list a computed request returns is in non-increasing order of
\* confidence, for every boost map, the empty one too
C24_FinalOrder ==
  \A r \in Procs : Computed(r) => SortedByConfidence(req[r].result)

\* with a boost map that is not empty the returned list is in order though
\* the merged list was not
C24_SortedWhenBoosted ==
  \E r \in Procs :
    /\ Computed(r)
    /\ DOMAIN req[r].boostMap # {}
    /\ ~SortedByConfidence(req[r].merged)
    /\ SortedByConfidence(req[r].result)

\* C25: every entry of a returned list carries a confidence within [0, 1],
\* whatever the model wrote, on every path
C25_ConfidenceRange ==
  \A r \in Procs :
    Returned(r)
    => \A i \in 1..Len(req[r].result) :
         /\ req[r].result[i].confidence # Undefined
         /\ req[r].result[i].confidence >= 0
         /\ req[r].result[i].confidence <= 10000

\* the entries the code itself scores (fallback, padding, history) are
\* within range in a returned list that holds no entry of the model
C25_OwnScoresInRange ==
  \E r \in Procs :
    /\ Computed(r)
    /\ req[r].outcome.status = "error"
    /\ Len(req[r].result) = MaxLimit
    /\ \E i \in 1..Len(req[r].result) : req[r].result[i].historySource # ""
    /\ \A i \in 1..Len(req[r].result) :
         req[r].result[i].confidence \in 0..10000

\* the entry under key is in the cache and younger than the TTL
Fresh(key) ==
  /\ CacheHas(cache, key)
  /\ now - CacheEntry(cache, key).timestamp < CACHE_TTL_MS

\* slot r begins a request in this step
Begins(r) == req[r].pc \in {"idle", "done"} /\ req'[r] # req[r]

\* C26: the cache lookup of a request returns the cached list if and only
\* if an entry exists and its age is below 5 minutes; in every other case,
\* the age of exactly 5 minutes too, it is a miss and no entry is left under
\* the key
C26_CacheTTL ==
  [][\A r \in Procs :
       Begins(r)
       => LET key == KeyOf(req'[r].call)
          IN /\ req'[r].path = "hit" <=> Fresh(key)
             /\ Fresh(key) => req'[r].result = CacheEntry(cache, key).data
             /\ ~Fresh(key) => ~CacheHas(cache', key)]_vars

\* a request begun a millisecond past the TTL of the entry missed, and the
\* entry is gone
C26_ExpiredMiss ==
  \E r \in Procs :
    /\ req[r].pc = "fetch"
    /\ now = CACHE_TTL_MS + 1
    /\ cache = <<>>
    /\ \E p \in returned : /\ SameRequest(p.call, req[r].call)
                           /\ p.stored
                           /\ p.stamp = 0

\* ------------------------------------------------------------------------
\* The late writer: the cache is at its cap, FirstCall's entry the oldest
\* (the list of a request whose remote call failed), and a request for
\* FirstCall that began while the key was cold has not stored yet
\* ------------------------------------------------------------------------
FullCache ==
  <<[key |-> KeyOf(FirstCall), data |-> FirstList, timestamp |-> 0]>> \o OtherEntries

InitLate ==
  /\ cache = FullCache
  /\ now = 0
  /\ store = [browsing |-> [u \in KnownUsers |-> <<>>], carted |-> [u \in KnownUsers |-> <<>>]]
  /\ req = [r \in Procs |-> IF r = 1 THEN [Idle EXCEPT !.pc = "fetch", !.call = FirstCall]
                            ELSE Idle]
  /\ track = NoTrack
  /\ returned = {Completed([call |-> FirstCall, result |-> FirstList, remoteCalls |-> 1,
                            outcome |-> RemoteError],
                           TRUE, 0, 0)}
  /\ pending = {}
  /\ watch = [r \in Procs |-> NoWatch]
  /\ faults = [r \in Procs |-> NoFaults]
  /\ lineage = NoLineage
  /\ used = [NoneUsed EXCEPT !.requests = 1]

\* the calls that follow: those of the system, a product that is the only
\* one of its shop, a product the catalog does not hold
LateCalls ==
  SystemCalls
  \cup {Call("product", "solo", <<NumId(101)>>, 2, Null),
        Call("product", "shop", <<NumId(UnknownId)>>, 2, "u1")}

BeginLate ==
  \E call \in LateCalls :
    /\ used.requests < MaxRequests
    /\ Begin(1, call)
    /\ returned' = IF req'[1].pc = "done"
                   THEN returned \cup
                        {Completed(req'[1], TRUE, CacheEntry(cache, KeyOf(call)).timestamp, now)}
                   ELSE returned
    /\ used' = [used EXCEPT !.requests = @ + 1]
    /\ UNCHANGED <<track, pending, watch, faults, lineage>>

FetchLate ==
  /\ Fetch(1, FALSE, FALSE)
  /\ returned' = IF req'[1].pc = "done"
                 THEN returned \cup {Completed(req'[1], FALSE, 0, now)}
                 ELSE returned
  /\ UNCHANGED <<track, pending, watch, used, faults, lineage>>

RemoteLate ==
  /\ \E outcome \in SystemOutcomes \cup {RemoteMalformed} : Remote(1, outcome)
  /\ UNCHANGED <<track, history>>

BoostLate ==
  /\ \E rows \in EngagementAnswers : Boost(1, rows, FALSE)
  /\ returned' = Spoil(returned, {KeyOf(req[1].call)} \cup EvictedBy(cache))
                 \cup {Completed(req'[1], TRUE, now, now)}
  /\ UNCHANGED <<track, pending, watch, used, faults, lineage>>

NextLate ==
  \/ BeginLate
  \/ FetchLate
  \/ RemoteLate
  \/ BoostLate
  \/ Tick

SpecLate == InitLate /\ [][NextLate]_vars

\* the keys a Map holds
CacheKeys(c) == {c[i].key : i \in 1..Len(c)}

\* key a comes before key b in the iteration order of the Map
Before(c, a, b) ==
  \E i \in CacheIndex(c, a), j \in CacheIndex(c, b) : i < j

\* request r calls setCache in this step
Stores(r) == req[r].pc = "boost" /\ req'[r].pc = "done"

\* the step leaves the keys held before and after it in their order
SameOrder ==
  \A a \in CacheKeys(cache) \cap CacheKeys(cache'), b \in CacheKeys(cache) \cap CacheKeys(cache') :
    Before(cache, a, b) <=> Before(cache', a, b)

\* C27: a setCache on a Map of more than CACHE_MAX entries removes exactly
\* the earliest inserted key before it inserts; a lookup and the overwrite
\* of a key that is present leave every entry's place in the order.
C27_EvictionOrder ==
  [][/\ \A r \in Procs :
          Stores(r) =>
            LET key == KeyOf(req[r].call)
            IN /\ Len(cache) > CACHE_MAX =>
                    CacheKeys(cache') = (CacheKeys(cache) \ {cache[1].key}) \cup {key}
               /\ Len(cache) <= CACHE_MAX => CacheKeys(cache') = CacheKeys(cache) \cup {key}
               /\ CacheHas(cache, key) => SameOrder
     /\ \A r \in Procs : Begins(r) => SameOrder]_vars

\* the late writer has stored: the key that was the oldest is the newest
C27_OldestMovedLast ==
  /\ req[1].pc = "done" /\ req[1].path = "computed" /\ req[1].call = FirstCall
  /\ Len(cache) = CACHE_MAX + 1
  /\ cache[1].key = OtherEntries[1].key
  /\ cache[Len(cache)].key = KeyOf(FirstCall)
  /\ now = 0

\* C27 for every store but that of the oldest key itself
C27_OrderKeptUnlessOldest ==
  [][\A r \in Procs :
        (Stores(r) /\ CacheHas(cache, KeyOf(req[r].call))
           /\ ~(Len(cache) > CACHE_MAX /\ cache[1].key = KeyOf(req[r].call))) => SameOrder]_vars

\* C28: whatever lookups, stores and invalidations the requests have made
\* in whatever order, the Map holds at most CACHE_MAX + 1 entries.
C28_CacheSizeBound == Len(cache) <= CACHE_MAX + 1

\* a request has stored a new key into the Map at its cap: the oldest key
\* is gone and the Map holds CACHE_MAX + 1 entries again
C28_StoredAtCap ==
  /\ Len(cache) = CACHE_MAX + 1
  /\ ~CacheHas(cache, KeyOf(FirstCall))
  /\ \E r \in Procs : /\ Computed(r)
                      /\ cache[Len(cache)].key = KeyOf(req[r].call)
                      /\ cache[Len(cache)].data = req[r].result

\* the remote call of request r failed or its output did not parse, and
\* the fallback ranking took the place of the model's
Substituted(r) ==
  /\ req[r].outcome.status \in {"error", "malformed"}
  /\ req[r].recommendations = Fallback(req[r].call)

\* request r stores, under its key, the fallback ranking merged and boosted
StoresFallback(r) ==
  LET call == req[r].call
      list == applyEngagementBoosts(
                mergeHistoryWithRecommendations(
                  Fallback(call),
                  HistoryCandidates(call, req[r].userProfile, req[r].cartHistory),
                  call.limit),
                req'[r].boostMap)
  IN /\ req'[r].result = list
     /\ CacheHas(cache', KeyOf(call))
     /\ CacheEntry(cache', KeyOf(call)).data = list
     /\ CacheEntry(cache', KeyOf(call)).timestamp = now

\* request r ends on the outer error path or with the empty result
EndsUnranked(r) == req[r].pc = "fetch" /\ req'[r].pc = "done"

\* request r, beginning, is served the list of the returned call p
ServedFrom(r, p) ==
  /\ req'[r].pc = "done"
  /\ req'[r].path = "hit"
  /\ req'[r].remoteCalls = 0
  /\ req'[r].result = p.result

\* C29 as claimed: a request whose remote call failed stores the merged and
\* boosted fallback ranking under its key; every identical request begun
\* within the TTL of that store, no invalidation in between, returns that
\* list without a remote call; the outer error path and the empty result
\* store nothing.
C29_FailureCached ==
  [][\A r \in Procs :
       /\ (Stores(r) /\ Substituted(r)) => StoresFallback(r)
       /\ Begins(r) =>
            \A p \in returned :
              (/\ p.failed /\ p.stored
               /\ p.call = req'[r].call
               /\ now - p.stamp < CACHE_TTL_MS) => ServedFrom(r, p)
       /\ EndsUnranked(r) =>
            /\ req'[r].path \in {"lastresort", "empty"}
            /\ cache' = cache]_vars

\* C29 amended: the same, for the identical requests begun while the entry
\* of the failed request is still the one under the key: no other request
\* has stored under the key since and the entry was not evicted at the cap.
C29_FailureCachedUndisturbed ==
  [][\A r \in Procs :
       /\ (Stores(r) /\ Substituted(r)) => StoresFallback(r)
       /\ Begins(r) =>
            \A p \in returned :
              (/\ p.failed /\ p.stored /\ p.clean
               /\ p.call = req'[r].call
               /\ now - p.stamp < CACHE_TTL_MS) => ServedFrom(r, p)
       /\ EndsUnranked(r) =>
            /\ req'[r].path \in {"lastresort", "empty"}
            /\ cache' = cache]_vars

\* a cart request whose remote call failed has stored its fallback list and
\* the same request, begun afterwards, was served that list from the cache
C29_Witness ==
  \E r \in Procs :
    /\ Returned(r) /\ req[r].path = "hit" /\ req[r].remoteCalls = 0
    /\ req[r].call.kind = "cart"
    /\ \E p \in returned :
         /\ p.failed /\ p.stored /\ p.clean /\ p.remoteCalls = 1
         /\ p.call = req[r].call
         /\ p.result = req[r].result
         /\ p.result = Fallback(p.call)
         /\ CacheEntry(cache, KeyOf(p.call)).data = p.result

\* a request for a product the catalog does not hold has returned the
\* last-resort list and the Map holds no entry under its key
C29_UnrankedNotStored ==
  \E r \in Procs :
    /\ Returned(r) /\ req[r].path = "lastresort"
    /\ Len(req[r].result) > 0
    /\ ~CacheHas(cache, KeyOf(req[r].call))

\* request r is between its cache miss and its store
InFlight(r) == req[r].pc \in {"fetch", "remote", "boost"}

\* the list request r returns is the one it computed from its own reads
\* and its own remote call
OwnList(r) ==
  LET call == req[r].call
  IN /\ req[r].remoteCalls = 1
     /\ req[r].recommendations = Recommend(call, req[r].userProfile, req[r].outcome)
     /\ req[r].merged =
          mergeHistoryWithRecommendations(
            req[r].recommendations,
            HistoryCandidates(call, req[r].userProfile, req[r].cartHistory),
            call.limit)
     /\ req'[r].result = applyEngagementBoosts(req[r].merged, req'[r].boostMap)

\* C30: a request that begins on a cold key while another request for that
\* key is in flight starts its own computation and leaves the other as it
\* is; each returns the list it computed itself; after each store the Map
\* holds one entry under the key, the whole list of the request that stored
\* last, and the list under a key changes by a store for that key only.
C30_ColdKeyRace ==
  [][/\ \A r \in Procs :
          (/\ Begins(r)
           /\ ~CacheHas(cache, KeyOf(req'[r].call))
           /\ \E q \in Procs \ {r} :
                InFlight(q) /\ KeyOf(req[q].call) = KeyOf(req'[r].call))
          => /\ req'[r].pc = "fetch"
             /\ \A q \in Procs \ {r} : req'[q] = req[q]
     /\ \A r \in Procs :
          Stores(r)
          => /\ OwnList(r)
             /\ req'[r].path = "computed"
             /\ Cardinality(CacheIndex(cache', KeyOf(req[r].call))) = 1
             /\ CacheEntry(cache', KeyOf(req[r].call)).data = req'[r].result
             /\ \A q \in Procs \ {r} : req'[q] = req[q]
     /\ \A call \in SystemCalls :
          (/\ cache' # cache
           /\ CacheHas(cache', KeyOf(call))
           /\ \/ ~CacheHas(cache, KeyOf(call))
              \/ CacheEntry(cache', KeyOf(call)).data # CacheEntry(cache, KeyOf(call)).data)
          => \E r \in Procs :
               /\ Stores(r)
               /\ KeyOf(req[r].call) = KeyOf(call)
               /\ CacheEntry(cache', KeyOf(call)).data = req'[r].result]_vars

\* two requests for one cold key overlapped (the clock has not moved and no
\* hook ran), each made its remote call, they returned different lists, and
\* the Map holds one entry: the list of one of them
C30_Witness ==
  \E r \in Procs, q \in Procs :
    /\ r # q
    /\ Computed(r) /\ Computed(q)
    /\ KeyOf(req[r].call) = KeyOf(req[q].call)
    /\ req[r].remoteCalls = 1 /\ req[q].remoteCalls = 1
    /\ req[r].result # req[q].result
    /\ Len(req[r].result) >= 2 /\ Len(req[q].result) >= 2
    /\ used.ticks = 0 /\ used.tracks = 0
    /\ cache = <<[key |-> KeyOf(req[r].call), data |-> req[r].result, timestamp |-> 0]>>

====
